---- MODULE Spec2Model ----
(***************************************************************************)
(* Model of the zeroconf discovery engine of                               *)
(* homeassistant/components/zeroconf/__init__.py: the listener callback    *)
(* async_service_update, the per-event pipeline _process_service_update,   *)
(* the normaliser info_from_service, the HomeKit classifier                *)
(* async_get_homekit_discovery_domain and the generic matcher.             *)
(*                                                                         *)
(* Text is modelled character by character: a str is a sequence of code    *)
(* points and a bytes object a sequence of byte values, so that decoding,  *)
(* case folding, int() and glob matching are computed, not assumed.  The   *)
(* literal next to each sequence is the text it spells.                    *)
(***************************************************************************)
EXTENDS Integers, Sequences, FiniteSets, TLC

(***************************************************************************)
(* Bounds of the model.                                                    *)
(***************************************************************************)
\* listener callbacks delivered in one run of the dispatcher
MaxEvents == 2
\* entries of one advertised property byte-map
MaxProps == 2
\* candidate addresses of one advertised record
MaxAddrs == 2

\* the calls of the zeroconf instance accessors in a run
MaxGetCalls == 3

\* the calls of the alarm's command methods in a run
MaxAlarmCalls == 2

\* the velbus config entries
MaxEntries == 3

(***************************************************************************)
(* Python values.  A value is tagged with its type: bytes and str carry    *)
(* their elements in val, a dict carries its items in insertion order.     *)
(***************************************************************************)
PyNone == [tag |-> "None", val |-> <<>>, items |-> <<>>]

PyBytes(b) == [tag |-> "bytes", val |-> b, items |-> <<>>]

PyStr(s) == [tag |-> "str", val |-> s, items |-> <<>>]

PyDict(its) == [tag |-> "dict", val |-> <<>>, items |-> its]

\* key in d
DictHas(its, key) == \E i \in 1..Len(its) : its[i].k = key

\* d[key], for a key that is in d
DictGet(its, key) == its[CHOOSE i \in 1..Len(its) : its[i].k = key].v

\* d[key] = value: an existing key keeps its place, a new key goes last
DictSet(its, key, value) ==
    IF DictHas(its, key)
    THEN [i \in 1..Len(its) |->
            IF its[i].k = key THEN [k |-> key, v |-> value] ELSE its[i]]
    ELSE Append(its, [k |-> key, v |-> value])

(***************************************************************************)
(* Text conversions of the Python runtime used by the component.           *)
(***************************************************************************)
\* bytes.decode("ascii"): every byte below 128, else UnicodeDecodeError
AsciiDecode(b) ==
    IF \A i \in 1..Len(b) : b[i] < 128
    THEN [ok |-> TRUE, s |-> b]
    ELSE [ok |-> FALSE, s |-> <<>>]

IsCont(x) == x >= 128 /\ x <= 191

\* the length of the UTF-8 sequence that starts b (0: ill-formed)
Utf8Width(b) ==
    IF b[1] < 128 THEN 1
    ELSE IF b[1] >= 194 /\ b[1] <= 223 /\ Len(b) >= 2 /\ IsCont(b[2]) THEN 2
    ELSE IF /\ b[1] >= 224 /\ b[1] <= 239 /\ Len(b) >= 3
            /\ IsCont(b[2]) /\ IsCont(b[3])
            /\ (b[1] = 224 => b[2] >= 160)
            /\ (b[1] = 237 => b[2] <= 159) THEN 3
    ELSE IF /\ b[1] >= 240 /\ b[1] <= 244 /\ Len(b) >= 4
            /\ IsCont(b[2]) /\ IsCont(b[3]) /\ IsCont(b[4])
            /\ (b[1] = 240 => b[2] >= 144)
            /\ (b[1] = 244 => b[2] <= 143) THEN 4
    ELSE 0

\* the code point of a well-formed sequence of width w at the head of b
Utf8Point(b, w) ==
    IF w = 1 THEN b[1]
    ELSE IF w = 2 THEN (b[1] - 192) * 64 + (b[2] - 128)
    ELSE IF w = 3 THEN (b[1] - 224) * 4096 + (b[2] - 128) * 64 + (b[3] - 128)
    ELSE (b[1] - 240) * 262144 + (b[2] - 128) * 4096
            + (b[3] - 128) * 64 + (b[4] - 128)

\* bytes.decode("utf-8"): the code points, or UnicodeDecodeError (ok = FALSE)
RECURSIVE Utf8Decode(_)
Utf8Decode(b) ==
    IF b = <<>> THEN [ok |-> TRUE, s |-> <<>>]
    ELSE LET w == Utf8Width(b)
         IN  IF w = 0 THEN [ok |-> FALSE, s |-> <<>>]
             ELSE LET rest == Utf8Decode(SubSeq(b, w + 1, Len(b)))
                  IN  IF rest.ok
                      THEN [ok |-> TRUE, s |-> <<Utf8Point(b, w)>> \o rest.s]
                      ELSE [ok |-> FALSE, s |-> <<>>]

\* str.lower() of one code point: ASCII and Latin-1 letters (no input here
\* has a point above Latin-1)
LowerPoint(c) ==
    IF c >= 65 /\ c <= 90 THEN c + 32
    ELSE IF c >= 192 /\ c <= 222 /\ c # 215 THEN c + 32
    ELSE c

\* str.lower()
Lower(s) == [i \in 1..Len(s) |-> LowerPoint(s[i])]

\* str.upper() of one code point: ASCII and Latin-1 letters whose upper case
\* is one Latin-1 point (181, 223 and 255 are not; no input here has them)
UpperPoint(c) ==
    IF c >= 97 /\ c <= 122 THEN c - 32
    ELSE IF c >= 224 /\ c <= 254 /\ c # 247 THEN c - 32
    ELSE c

\* str.upper()
Upper(s) == [i \in 1..Len(s) |-> UpperPoint(s[i])]

\* str.startswith(prefix)
StartsWith(s, prefix) ==
    Len(s) >= Len(prefix) /\ SubSeq(s, 1, Len(prefix)) = prefix

IsSpace(c) == c \in {9, 10, 11, 12, 13, 28, 29, 30, 31, 32, 133, 160}

IsDigit(c) == c >= 48 /\ c <= 57

RECURSIVE LStrip(_)
LStrip(s) == IF s # <<>> /\ IsSpace(s[1]) THEN LStrip(Tail(s)) ELSE s

RECURSIVE RStrip(_)
RStrip(s) ==
    IF s # <<>> /\ IsSpace(s[Len(s)])
    THEN RStrip(SubSeq(s, 1, Len(s) - 1)) ELSE s

\* digits with single underscores between them, as int() accepts
DigitsOk(d) ==
    /\ d # <<>>
    /\ \A i \in 1..Len(d) :
          \/ IsDigit(d[i])
          \/ d[i] = 95 /\ i > 1 /\ i < Len(d)
                /\ IsDigit(d[i - 1]) /\ IsDigit(d[i + 1])

RECURSIVE DigitsValue(_, _)
DigitsValue(d, acc) ==
    IF d = <<>> THEN acc
    ELSE IF d[1] = 95 THEN DigitsValue(Tail(d), acc)
    ELSE DigitsValue(Tail(d), acc * 10 + (d[1] - 48))

\* int(s) of a str: surrounding white space, one sign, decimal digits;
\* anything else is ValueError (ok = FALSE)
PyInt(s) ==
    LET t == RStrip(LStrip(s))
        signed == t # <<>> /\ t[1] \in {43, 45}
        d == IF signed THEN Tail(t) ELSE t
    IN  IF DigitsOk(d)
        THEN [ok |-> TRUE,
              n |-> IF signed /\ t[1] = 45
                    THEN 0 - DigitsValue(d, 0) ELSE DigitsValue(d, 0)]
        ELSE [ok |-> FALSE, n |-> 0]

(***************************************************************************)
(* fnmatch.fnmatch(name, pat): both normalised by os.path.normcase, then   *)
(* matched as a shell pattern with *, ? and [seq] / [!seq].                *)
(***************************************************************************)
\* the index of the ] that closes the [ at pat[j], or 0 when none does and
\* the [ stands for itself
RECURSIVE FirstClose(_, _)
FirstClose(pat, k) ==
    IF k > Len(pat) THEN 0
    ELSE IF pat[k] = 93 THEN k
    ELSE FirstClose(pat, k + 1)

ClassEnd(pat, j) ==
    LET k1 == IF j + 1 <= Len(pat) /\ pat[j + 1] = 33 THEN j + 2 ELSE j + 1
        k2 == IF k1 <= Len(pat) /\ pat[k1] = 93 THEN k1 + 1 ELSE k1
    IN  FirstClose(pat, k2)

\* whether code point c is in the character set spelled by body (x-y: range)
RECURSIVE InClass(_, _)
InClass(body, c) ==
    IF body = <<>> THEN FALSE
    ELSE IF Len(body) >= 3 /\ body[2] = 45
    THEN (body[1] <= c /\ c <= body[3])
            \/ InClass(SubSeq(body, 4, Len(body)), c)
    ELSE body[1] = c \/ InClass(Tail(body), c)

ClassHas(stuff, c) ==
    IF stuff[1] = 33
    THEN ~InClass(Tail(stuff), c)
    ELSE InClass(stuff, c)

\* fnmatch.fnmatchcase, on name[i..] and pat[j..]
RECURSIVE GlobFrom(_, _, _, _)
GlobFrom(name, pat, i, j) ==
    IF j > Len(pat) THEN i > Len(name)
    ELSE IF pat[j] = 42
    THEN GlobFrom(name, pat, i, j + 1)
            \/ (i <= Len(name) /\ GlobFrom(name, pat, i + 1, j))
    ELSE IF pat[j] = 63
    THEN i <= Len(name) /\ GlobFrom(name, pat, i + 1, j + 1)
    ELSE IF pat[j] = 91 /\ ClassEnd(pat, j) # 0
    THEN /\ i <= Len(name)
         /\ ClassHas(SubSeq(pat, j + 1, ClassEnd(pat, j) - 1), name[i])
         /\ GlobFrom(name, pat, i + 1, ClassEnd(pat, j) + 1)
    ELSE i <= Len(name) /\ name[i] = pat[j]
            /\ GlobFrom(name, pat, i + 1, j + 1)

fnmatchcase(name, pat) == GlobFrom(name, pat, 1, 1)

\* os.path.normcase: the identity on posix; on nt lower case with / as \
normcase(os, s) ==
    IF os = "nt"
    THEN Lower([i \in 1..Len(s) |-> IF s[i] = 47 THEN 92 ELSE s[i]])
    ELSE s

fnmatch(os, name, pat) == fnmatchcase(normcase(os, name), normcase(os, pat))

(***************************************************************************)
(* ipaddress: ip_address(packed), is_link_local, version and str().        *)
(***************************************************************************)
\* ip_address(packed).version: 4 packed bytes are IPv4, 16 are IPv6
IPVersion(a) == IF Len(a) = 4 THEN 4 ELSE 6

\* 169.254.0.0/16 and fe80::/10
IsLinkLocal(a) ==
    IF IPVersion(a) = 4
    THEN a[1] = 169 /\ a[2] = 254
    ELSE a[1] = 254 /\ a[2] >= 128 /\ a[2] <= 191

RECURSIVE DecStr(_)
DecStr(n) ==
    IF n < 10 THEN <<48 + n>> ELSE DecStr(n \div 10) \o <<48 + (n % 10)>>

HexDigit(d) == IF d < 10 THEN 48 + d ELSE 87 + d

RECURSIVE HexStr(_)
HexStr(n) ==
    IF n < 16 THEN <<HexDigit(n)>>
    ELSE HexStr(n \div 16) \o <<HexDigit(n % 16)>>

\* sep.join(parts)
RECURSIVE Join(_, _)
Join(parts, sep) ==
    IF parts = <<>> THEN <<>>
    ELSE IF Len(parts) = 1 THEN parts[1]
    ELSE parts[1] \o sep \o Join(Tail(parts), sep)

Hextets(a) == [k \in 1..8 |-> a[2 * k - 1] * 256 + a[2 * k]]

\* the length of the run of zero hextets that starts at h[i]
RECURSIVE ZeroRun(_, _)
ZeroRun(h, i) ==
    IF i > Len(h) \/ h[i] # 0 THEN 0 ELSE 1 + ZeroRun(h, i + 1)

\* str(IPv6Address): lower-case hextets, the first longest run of two or
\* more zero hextets written ::
IPv6Str(a) ==
    LET h == Hextets(a)
        best == CHOOSE n \in 0..8 :
                    /\ \E i \in 1..8 : ZeroRun(h, i) = n
                    /\ \A i \in 1..8 : ZeroRun(h, i) <= n
        start == CHOOSE i \in 1..8 :
                    /\ ZeroRun(h, i) = best
                    /\ \A k \in 1..(i - 1) : ZeroRun(h, k) < best
        hex(lo, hi) == Join([k \in 1..(hi - lo + 1) |-> HexStr(h[lo + k - 1])],
                            <<58>>)
    IN  IF best > 1
        THEN hex(1, start - 1) \o <<58, 58>> \o hex(start + best, 8)
        ELSE hex(1, 8)

\* str(IPv4Address): dotted decimal
IPv4Str(a) == Join([k \in 1..4 |-> DecStr(a[k])], <<46>>)

IPStr(a) == IF IPVersion(a) = 4 THEN IPv4Str(a) ELSE IPv6Str(a)

(***************************************************************************)
(* Constants of the component.                                             *)
(***************************************************************************)
ZEROCONF_TYPE == "_home-assistant._tcp.local."

HOMEKIT_TYPES == <<"_hap._tcp.local.", "_hap._udp.local.">>

\* "sf"
HOMEKIT_PAIRED_STATUS_FLAG == <<115, 102>>

\* "md"
HOMEKIT_MODEL == <<109, 100>>

\* "_raw"
ATTR_RAW == <<95, 114, 97, 119>>

\* "macaddress"
KEY_MACADDRESS == <<109, 97, 99, 97, 100, 100, 114, 101, 115, 115>>

\* "manufacturer"
KEY_MANUFACTURER == <<109, 97, 110, 117, 102, 97, 99, 116, 117, 114, 101, 114>>

\* "model"
KEY_MODEL == <<109, 111, 100, 101, 108>>

SOURCE_HOMEKIT == "homekit"

SOURCE_ZEROCONF == "zeroconf"

\* the value of a name bound to None where a domain is expected
NoDomain == "None"

(***************************************************************************)
(* _first_non_link_local_or_v6_address and info_from_service.              *)
(***************************************************************************)
\* the first address of the list, link-local or not
FirstAddress(addresses) ==
    IF addresses = <<>> THEN [found |-> FALSE, host |-> <<>>]
    ELSE [found |-> TRUE, host |-> IPStr(addresses[1])]

\* the first address, in order, that is IPv6 or is not link-local
RECURSIVE _first_non_link_local_or_v6_address(_)
_first_non_link_local_or_v6_address(addresses) ==
    IF addresses = <<>> THEN [found |-> FALSE, host |-> <<>>]
    ELSE IF ~IsLinkLocal(addresses[1]) \/ IPVersion(addresses[1]) = 6
    THEN [found |-> TRUE, host |-> IPStr(addresses[1])]
    ELSE _first_non_link_local_or_v6_address(Tail(addresses))

\* One turn of the loop over service.properties.items().  st.properties is
\* the dict being built; st.raised is set when a statement of the loop body
\* raised (properties["_raw"][key] = value on a properties["_raw"] that is
\* no longer a dict is a TypeError, which nothing in the function catches).
PropertyStep(st, key, value) ==
    LET dk == AsciiDecode(key)
        raw == DictGet(st.properties, ATTR_RAW)
        withRaw == DictSet(st.properties, ATTR_RAW,
                           PyDict(DictSet(raw.items, dk.s, value)))
        dv == Utf8Decode(value.val)
    IN  IF st.raised THEN st
        ELSE IF ~dk.ok THEN st
        ELSE IF raw.tag # "dict" THEN [st EXCEPT !.raised = TRUE]
        ELSE IF value.tag = "bytes" /\ dv.ok
        THEN [st EXCEPT !.properties = DictSet(withRaw, dk.s, PyStr(dv.s))]
        ELSE [st EXCEPT !.properties = withRaw]

RECURSIVE PropertyLoop(_, _)
PropertyLoop(st, entries) ==
    IF entries = <<>> THEN st
    ELSE PropertyLoop(PropertyStep(st, entries[1].k, entries[1].v),
                      Tail(entries))

\* the properties dict info_from_service builds from service.properties
DecodeProperties(entries) ==
    PropertyLoop([properties |-> <<[k |-> ATTR_RAW, v |-> PyDict(<<>>)]>>,
                  raised |-> FALSE],
                 entries)

NoInfo ==
    [host |-> <<>>, port |-> 0, hostname |-> "", type |-> "", name |-> <<>>,
     properties |-> <<>>]

\* info_from_service without the test of host against None: str(None) is
\* the host of a record with no usable address
info_from_service_NoHostTest(service) ==
    LET st == DecodeProperties(service.properties)
        first == _first_non_link_local_or_v6_address(service.addresses)
    IN  IF st.raised THEN [result |-> "raised", info |-> NoInfo]
        ELSE IF service.addresses = <<>> THEN [result |-> "None", info |-> NoInfo]
        ELSE [result |-> "info",
              info |-> [host |-> IF first.found THEN first.host
                                 ELSE <<78, 111, 110, 101>>,
                        port |-> service.port,
                        hostname |-> service.server,
                        type |-> service.type,
                        name |-> service.name,
                        properties |-> st.properties]]

\* info_from_service(service): result "info" with the ZeroconfServiceInfo,
\* "None", or "raised" when the call ends in an exception
info_from_service(service) ==
    LET st == DecodeProperties(service.properties)
        first == _first_non_link_local_or_v6_address(service.addresses)
    IN  IF st.raised THEN [result |-> "raised", info |-> NoInfo]
        ELSE IF service.addresses = <<>> THEN [result |-> "None", info |-> NoInfo]
        ELSE IF ~first.found THEN [result |-> "None", info |-> NoInfo]
        ELSE [result |-> "info",
              info |-> [host |-> first.host,
                        port |-> service.port,
                        hostname |-> service.server,
                        type |-> service.type,
                        name |-> service.name,
                        properties |-> st.properties]]

(***************************************************************************)
(* async_get_homekit_discovery_domain.                                     *)
(***************************************************************************)
\* the scan for the model key comparing the keys as they are
RECURSIVE ModelKeyIndex_ExactCase(_, _)
ModelKeyIndex_ExactCase(props, i) ==
    IF i > Len(props) THEN 0
    ELSE IF props[i].k = HOMEKIT_MODEL THEN i
    ELSE ModelKeyIndex_ExactCase(props, i + 1)

\* the index of the first key of props whose lower case is "md", or 0
RECURSIVE ModelKeyIndex(_, _)
ModelKeyIndex(props, i) ==
    IF i > Len(props) THEN 0
    ELSE IF Lower(props[i].k) = HOMEKIT_MODEL THEN i
    ELSE ModelKeyIndex(props, i + 1)

\* the model test with any model that starts with the entry accepted
ModelMatches_AnyPrefix(os, model, test_model) ==
    \/ StartsWith(model, test_model)
    \/ fnmatch(os, model, test_model)

\* whether the advertised model matches the table entry test_model
ModelMatches(os, model, test_model) ==
    \/ model = test_model
    \/ StartsWith(model, test_model \o <<32>>)
    \/ StartsWith(model, test_model \o <<45>>)
    \/ fnmatch(os, model, test_model)

\* the loop over homekit_models going on after a match, so that the last
\* matching entry gives the domain
RECURSIVE FirstModelDomain_LastMatch(_, _, _, _)
FirstModelDomain_LastMatch(os, homekit_models, model, i) ==
    IF i > Len(homekit_models) THEN NoDomain
    ELSE LET later == FirstModelDomain_LastMatch(os, homekit_models, model,
                                                 i + 1)
         IN  IF later # NoDomain THEN later
             ELSE IF ModelMatches(os, model, homekit_models[i].k)
             THEN homekit_models[i].v
             ELSE NoDomain

\* the domain of the first entry of homekit_models, from index i on, that
\* the model matches
RECURSIVE FirstModelDomain(_, _, _, _)
FirstModelDomain(os, homekit_models, model, i) ==
    IF i > Len(homekit_models) THEN NoDomain
    ELSE IF ModelMatches(os, model, homekit_models[i].k)
    THEN homekit_models[i].v
    ELSE FirstModelDomain(os, homekit_models, model, i + 1)

async_get_homekit_discovery_domain(os, homekit_models, props) ==
    LET i == ModelKeyIndex(props, 1)
    IN  IF i = 0 THEN NoDomain
        ELSE FirstModelDomain(os, homekit_models, props[i].v.val, 1)

(***************************************************************************)
(* The generic matcher of _process_service_update.                         *)
(***************************************************************************)
NoStr == [some |-> FALSE, s |-> <<>>]

SomeStr(s) == [some |-> TRUE, s |-> s]

\* lowercase_name: info["name"].lower()
LowercaseName(info) == SomeStr(Lower(info.name))

\* the property taken as advertised, without .lower() or .upper()
FoldedProperty_NotFolded(info, key, upper) ==
    IF DictHas(info.properties, key)
    THEN SomeStr(DictGet(info.properties, key).val)
    ELSE NoStr

\* info["properties"][key] folded by fold when the key is there, else None
FoldedProperty(info, key, upper) ==
    IF DictHas(info.properties, key)
    THEN SomeStr(IF upper
                 THEN Upper(DictGet(info.properties, key).val)
                 ELSE Lower(DictGet(info.properties, key).val))
    ELSE NoStr

\* one filter of a matcher passing when the record lacks the value
FilterPasses_AbsentPasses(os, matcher, field, value) ==
    field \in DOMAIN matcher =>
        (value.some => fnmatch(os, value.s, matcher[field]))

\* one filter of a matcher: passes when the matcher has no such field, or
\* the record has the value and the pattern matches it
FilterPasses(os, matcher, field, value) ==
    field \in DOMAIN matcher =>
        value.some /\ fnmatch(os, value.s, matcher[field])

\* the loop body with a matcher of one field skipped instead of accepted
MatcherMatches_BareSkipped(os, matcher, info) ==
    /\ Cardinality(DOMAIN matcher) > 1
    /\ FilterPasses(os, matcher, "macaddress",
                    FoldedProperty(info, KEY_MACADDRESS, TRUE))
    /\ FilterPasses(os, matcher, "name", LowercaseName(info))
    /\ FilterPasses(os, matcher, "manufacturer",
                    FoldedProperty(info, KEY_MANUFACTURER, FALSE))
    /\ FilterPasses(os, matcher, "model",
                    FoldedProperty(info, KEY_MODEL, FALSE))

\* whether the loop body reaches async_create_flow for this matcher
MatcherMatches(os, matcher, info) ==
    Cardinality(DOMAIN matcher) > 1 =>
        /\ FilterPasses(os, matcher, "macaddress",
                        FoldedProperty(info, KEY_MACADDRESS, TRUE))
        /\ FilterPasses(os, matcher, "name", LowercaseName(info))
        /\ FilterPasses(os, matcher, "manufacturer",
                        FoldedProperty(info, KEY_MANUFACTURER, FALSE))
        /\ FilterPasses(os, matcher, "model",
                        FoldedProperty(info, KEY_MODEL, FALSE))

Flow(domain, source, info) ==
    [domain |-> domain, source |-> source, info |-> info]

\* the loop creating one flow per domain, however many matchers of the
\* domain match
RECURSIVE MatcherFlows_OncePerDomain(_, _, _)
MatcherFlows_OncePerDomain(os, matchers, info) ==
    IF matchers = <<>> THEN <<>>
    ELSE LET rest == MatcherFlows_OncePerDomain(os, Tail(matchers), info)
         IN  IF MatcherMatches(os, matchers[1], info)
             THEN <<Flow(matchers[1]["domain"], SOURCE_ZEROCONF, info)>>
                  \o SelectSeq(rest,
                               LAMBDA f : f.domain # matchers[1]["domain"])
             ELSE rest

\* the flows of the loop over zeroconf_types.get(service_type, []), in order
RECURSIVE MatcherFlows(_, _, _)
MatcherFlows(os, matchers, info) ==
    IF matchers = <<>> THEN <<>>
    ELSE (IF MatcherMatches(os, matchers[1], info)
          THEN <<Flow(matchers[1]["domain"], SOURCE_ZEROCONF, info)>>
          ELSE <<>>)
         \o MatcherFlows(os, Tail(matchers), info)

\* zeroconf_types.get(service_type, [])
MatchersFor(zc_types, service_type) ==
    IF DictHas(zc_types, service_type)
    THEN DictGet(zc_types, service_type)
    ELSE <<>>

\* the HomeKit block entered for the last of HOMEKIT_TYPES only
IsHomekitType_LastOnly(service_type) ==
    HOMEKIT_TYPES[Len(HOMEKIT_TYPES)] = service_type

IsHomekitType(service_type) ==
    \E i \in 1..Len(HOMEKIT_TYPES) : HOMEKIT_TYPES[i] = service_type

\* the pairing test returning for any flag in the typed bag, 0 included
ReturnsAfterHomekit_AnyFlag(domain, props) ==
    /\ domain # NoDomain
    /\ DictHas(props, HOMEKIT_PAIRED_STATUS_FLAG)

\* the pairing test with the ValueError branch falling through to the matcher
ReturnsAfterHomekit_ValueErrorPasses(domain, props) ==
    /\ domain # NoDomain
    /\ DictHas(props, HOMEKIT_PAIRED_STATUS_FLAG)
    /\ LET n == PyInt(DictGet(props, HOMEKIT_PAIRED_STATUS_FLAG).val)
       IN  n.ok /\ n.n # 0

\* the test of lines 375-383: a domain was resolved, the typed bag has the
\* pairing flag, and int() of it is non-zero or raises ValueError
ReturnsAfterHomekit(domain, props) ==
    /\ domain # NoDomain
    /\ DictHas(props, HOMEKIT_PAIRED_STATUS_FLAG)
    /\ LET n == PyInt(DictGet(props, HOMEKIT_PAIRED_STATUS_FLAG).val)
       IN  ~n.ok \/ n.n # 0

\* the HomeKit flow created only when the pairing test lets the record on
HomekitFlows_AfterPairingTest(domain, info) ==
    IF domain # NoDomain /\ ~ReturnsAfterHomekit(domain, info.properties)
    THEN <<Flow(domain, SOURCE_HOMEKIT, info)>>
    ELSE <<>>

\* the flow of line 365: created whenever a domain was resolved, before the
\* pairing flag is looked at
HomekitFlows(domain, info) ==
    IF domain # NoDomain
    THEN <<Flow(domain, SOURCE_HOMEKIT, info)>>
    ELSE <<>>

\* _process_service_update from the return of async_request on: how the
\* coroutine ends and the flows it creates, in order.
\*   "raised"   info_from_service raised, the exception ends the task
\*   "dropped"  no info: logged and dropped
\*   "homekit"  returned from the HomeKit block before the matcher
\*   "matched"  ran the matcher loop to its end
ProcessOutcome(os, zc_types, hk_models, service_type, service) ==
    LET r == info_from_service(service)
        info == r.info
        props == info.properties
        domain == IF IsHomekitType(service_type)
                  THEN async_get_homekit_discovery_domain(os, hk_models, props)
                  ELSE NoDomain
    IN  IF r.result = "raised" THEN [end |-> "raised", flows |-> <<>>]
        ELSE IF r.result = "None" THEN [end |-> "dropped", flows |-> <<>>]
        ELSE IF IsHomekitType(service_type) /\ ReturnsAfterHomekit(domain, props)
        THEN [end |-> "homekit", flows |-> HomekitFlows(domain, info)]
        ELSE [end |-> "matched",
              flows |-> HomekitFlows(domain, info)
                        \o MatcherFlows(os, MatchersFor(zc_types, service_type),
                                        info)]

(***************************************************************************)
(* The configuration handed to ZeroconfDiscovery.__init__ and the inputs   *)
(* the network delivers.                                                   *)
(***************************************************************************)
HAP_TCP == "_hap._tcp.local."

HAP_UDP == "_hap._udp.local."

ACME_TYPE == "_acme._tcp.local."

\* "Lock._hap._tcp.local."
NAME_LOCK == <<76, 111, 99, 107, 46, 95, 104, 97, 112, 46, 95, 116, 99, 112, 46, 108, 111, 99, 97, 108, 46>>

\* "Cam._acme._tcp.local."
NAME_CAM == <<67, 97, 109, 46, 95, 97, 99, 109, 101, 46, 95, 116, 99, 112, 46, 108, 111, 99, 97, 108, 46>>

\* the (service type, instance name) pairs the browser reports
Instances ==
    {[service_type |-> HAP_TCP, name |-> NAME_LOCK],
     [service_type |-> ACME_TYPE, name |-> NAME_CAM]}

StateChanges == {"Added", "Updated", "Removed"}

\* matcher dicts: "Acme*" and "acme*" as manufacturer patterns, and rules
\* with a domain only
RULE_ACME_UPPER == [domain |-> "acme_upper", manufacturer |-> <<65, 99, 109, 101, 42>>]

RULE_ACME_LOWER == [domain |-> "acme_lower", manufacturer |-> <<97, 99, 109, 101, 42>>]

RULE_ANY == [domain |-> "any_acme"]

RULE_HOMEKIT_CONTROLLER == [domain |-> "homekit_controller"]

\* the zeroconf_types tables a run may be constructed with
ZeroconfTypeTables ==
    {<<[k |-> HAP_TCP, v |-> <<RULE_HOMEKIT_CONTROLLER>>],
       [k |-> ACME_TYPE, v |-> <<RULE_ACME_UPPER, RULE_ACME_LOWER, RULE_ANY>>]>>,
     <<[k |-> ACME_TYPE, v |-> <<RULE_ACME_LOWER>>],
       [k |-> ZEROCONF_TYPE, v |-> <<[domain |-> "hass"]>>]>>}

\* the homekit_models table: "Hub" and "SmartLock"
HomekitModels ==
    <<[k |-> <<72, 117, 98>>, v |-> "hubvendor"],
      [k |-> <<83, 109, 97, 114, 116, 76, 111, 99, 107>>, v |-> "lockvendor"]>>

Platforms == {"posix", "nt"}

\* packed addresses: 169.254.1.2, 10.0.0.5, fe80::1, 2001:db8::1
ADDR_LL4 == <<169, 254, 1, 2>>

ADDR_V4 == <<10, 0, 0, 5>>

ADDR_LL6 == <<254, 128, 0, 0, 0, 0, 0, 0, 0, 0, 0, 0, 0, 0, 0, 1>>

ADDR_V6 == <<32, 1, 13, 184, 0, 0, 0, 0, 0, 0, 0, 0, 0, 0, 0, 1>>

Addresses == {ADDR_LL4, ADDR_V4, ADDR_LL6, ADDR_V6}

Entry(key, value) == [k |-> key, v |-> value]

\* advertised properties (key bytes, value bytes or None):
\*   md=SmartLock  sf=0  sf=1  sf=x  sf=\xff (not UTF-8)
\*   manufacturer=Acme Corp  manufacturer=Best Co
\*   _raw=x  \xc3\xa9=v (key not ASCII)  a=None
PropEntries ==
    {Entry(HOMEKIT_MODEL, PyBytes(<<83, 109, 97, 114, 116, 76, 111, 99, 107>>)),
     Entry(HOMEKIT_PAIRED_STATUS_FLAG, PyBytes(<<48>>)),
     Entry(HOMEKIT_PAIRED_STATUS_FLAG, PyBytes(<<49>>)),
     Entry(HOMEKIT_PAIRED_STATUS_FLAG, PyBytes(<<120>>)),
     Entry(HOMEKIT_PAIRED_STATUS_FLAG, PyBytes(<<255>>)),
     Entry(KEY_MANUFACTURER, PyBytes(<<65, 99, 109, 101, 32, 67, 111, 114, 112>>)),
     Entry(KEY_MANUFACTURER, PyBytes(<<66, 101, 115, 116, 32, 67, 111>>)),
     Entry(ATTR_RAW, PyBytes(<<120>>)),
     Entry(<<195, 169>>, PyBytes(<<118>>)),
     Entry(<<97>>, PyNone)}

\* the sequences over S of length at most n
SeqsUpTo(S, n) == UNION {[1..m -> S] : m \in 0..n}

\* a byte-map has each key once
DistinctKeys(entries) ==
    \A i, j \in 1..Len(entries) : entries[i].k = entries[j].k => i = j

PropertyMaps == {m \in SeqsUpTo(PropEntries, MaxProps) : DistinctKeys(m)}

AddressLists == SeqsUpTo(Addresses, MaxAddrs)

\* the AsyncServiceInfo after async_request for (service_type, name): the
\* addresses and properties are what the network answered
Service(service_type, name, addresses, properties) ==
    [type |-> service_type, name |-> name, server |-> "device.local.",
     port |-> 80, addresses |-> addresses, properties |-> properties]

\* "Door._acme._tcp.local."
NAME_DOOR == <<68, 111, 111, 114, 46, 95, 97, 99, 109, 101, 46, 95, 116, 99, 112, 46, 108, 111, 99, 97, 108, 46>>

\* the instances of the runs that exercise the matcher filters
MatcherInstances ==
    {[service_type |-> ACME_TYPE, name |-> NAME_CAM],
     [service_type |-> ACME_TYPE, name |-> NAME_DOOR],
     [service_type |-> HAP_TCP, name |-> NAME_LOCK]}

\* matcher dicts with filters: macaddress "AABB*", name "cam*", model "x1*",
\* macaddress "AABB*" with model "x1*", and macaddress "*EEFF" under the
\* domain of the first
RULE_MAC == [domain |-> "by_mac", macaddress |-> <<65, 65, 66, 66, 42>>]

RULE_NAME == [domain |-> "by_name", name |-> <<99, 97, 109, 42>>]

RULE_MODEL == [domain |-> "by_model", model |-> <<120, 49, 42>>]

RULE_MAC_MODEL ==
    [domain |-> "by_mac_model", macaddress |-> <<65, 65, 66, 66, 42>>,
     model |-> <<120, 49, 42>>]

RULE_MAC_AGAIN == [domain |-> "by_mac", macaddress |-> <<42, 69, 69, 70, 70>>]

\* a zeroconf_types table with those rules under one type and a rule
\* without filters under another
MatcherTable ==
    <<[k |-> ACME_TYPE,
       v |-> <<RULE_MAC, RULE_NAME, RULE_MODEL, RULE_MAC_MODEL, RULE_MAC_AGAIN,
               RULE_ACME_LOWER>>],
      [k |-> HAP_TCP, v |-> <<RULE_HOMEKIT_CONTROLLER>>]>>

\* advertised properties for the matcher:
\*   macaddress=aabbccddeeff  macaddress=112233445566
\*   model=X1 Pro  model=Z9  manufacturer=Acme Corp
MatcherEntries ==
    {Entry(KEY_MACADDRESS, PyBytes(<<97, 97, 98, 98, 99, 99, 100, 100, 101, 101, 102, 102>>)),
     Entry(KEY_MACADDRESS, PyBytes(<<49, 49, 50, 50, 51, 51, 52, 52, 53, 53, 54, 54>>)),
     Entry(KEY_MODEL, PyBytes(<<88, 49, 32, 80, 114, 111>>)),
     Entry(KEY_MODEL, PyBytes(<<90, 57>>)),
     Entry(KEY_MANUFACTURER, PyBytes(<<65, 99, 109, 101, 32, 67, 111, 114, 112>>))}

MatcherMaps == {m \in SeqsUpTo(MatcherEntries, MaxProps) : DistinctKeys(m)}

\* advertised properties for the HomeKit classifier:
\*   md=Hub 2000  md=HubX  md=Hub-1  md=hub  md=SmartLock  MD=Hub
\*   sf=0  sf=1  sf=x  sf=\xff (not UTF-8)
HomekitEntries ==
    {Entry(HOMEKIT_MODEL, PyBytes(<<72, 117, 98, 32, 50, 48, 48, 48>>)),
     Entry(HOMEKIT_MODEL, PyBytes(<<72, 117, 98, 88>>)),
     Entry(HOMEKIT_MODEL, PyBytes(<<72, 117, 98, 45, 49>>)),
     Entry(HOMEKIT_MODEL, PyBytes(<<104, 117, 98>>)),
     Entry(HOMEKIT_MODEL, PyBytes(<<83, 109, 97, 114, 116, 76, 111, 99, 107>>)),
     Entry(<<77, 68>>, PyBytes(<<72, 117, 98>>)),
     Entry(HOMEKIT_PAIRED_STATUS_FLAG, PyBytes(<<48>>)),
     Entry(HOMEKIT_PAIRED_STATUS_FLAG, PyBytes(<<49>>)),
     Entry(HOMEKIT_PAIRED_STATUS_FLAG, PyBytes(<<120>>)),
     Entry(HOMEKIT_PAIRED_STATUS_FLAG, PyBytes(<<255>>))}

HomekitMaps == {m \in SeqsUpTo(HomekitEntries, MaxProps) : DistinctKeys(m)}

\* entries of a homekit_models table that overlap: "Hub 2000", "Hub", "Hub*"
ENTRY_EXACT == [k |-> <<72, 117, 98, 32, 50, 48, 48, 48>>, v |-> "exactvendor"]

ENTRY_PREFIX == [k |-> <<72, 117, 98>>, v |-> "hubvendor"]

ENTRY_GLOB == [k |-> <<72, 117, 98, 42>>, v |-> "globvendor"]

\* the tables with these three entries, in every registration order
OverlapTables ==
    {t \in [1..3 -> {ENTRY_EXACT, ENTRY_PREFIX, ENTRY_GLOB}] :
        \A m, n \in 1..3 : t[m] = t[n] => m = n}

\* advertised properties for them:
\*   md=Hub 2000  md=Hub-1  md=HubX  md=Other  sf=1
OverlapEntries ==
    {Entry(HOMEKIT_MODEL, PyBytes(<<72, 117, 98, 32, 50, 48, 48, 48>>)),
     Entry(HOMEKIT_MODEL, PyBytes(<<72, 117, 98, 45, 49>>)),
     Entry(HOMEKIT_MODEL, PyBytes(<<72, 117, 98, 88>>)),
     Entry(HOMEKIT_MODEL, PyBytes(<<79, 116, 104, 101, 114>>)),
     Entry(HOMEKIT_PAIRED_STATUS_FLAG, PyBytes(<<49>>))}

OverlapMaps == {m \in SeqsUpTo(OverlapEntries, MaxProps) : DistinctKeys(m)}

(***************************************************************************)
(* State.                                                                  *)
(*   os_name                the platform (os.path.normcase depends on it)  *)
(*   zeroconf_types         ZeroconfDiscovery.zeroconf_types               *)
(*   homekit_models         ZeroconfDiscovery.homekit_models               *)
(*   async_service_browser  ZeroconfDiscovery.async_service_browser        *)
(*   stop_pc                where async_stop is: not called, in the await  *)
(*                          of async_cancel, or returned                   *)
(*   nEvents, lastEvent     the listener callbacks made so far, the last   *)
(*   tasks                  the tasks async_service_update created, each   *)
(*                          with its place (pc) and, once resumed, the     *)
(*                          record async_request left it                   *)
(*   flows                  the discovery flows created, in order, each    *)
(*                          with the task that created it                  *)
(***************************************************************************)
VARIABLES os_name, zeroconf_types, homekit_models, async_service_browser,
          stop_pc, nEvents, lastEvent, tasks, flows

(***************************************************************************)
(* State of the shared zeroconf instance (zeroconf/__init__.py).           *)
(*   hass_data_zeroconf  hass.data[DOMAIN]: 0 when the key is absent, else *)
(*                       the number of the HaAsyncZeroconf stored there    *)
(*   zc_constructed      how many HaZeroconf/HaAsyncZeroconf were made     *)
(*   zc_stop_listeners   the instances that have a _async_stop_zeroconf    *)
(*                       listener on EVENT_HOMEASSISTANT_STOP, in order    *)
(*   get_calls           the calls of the three accessors, each with its   *)
(*                       place (pc) and, once returned, its result         *)
(***************************************************************************)
VARIABLES hass_data_zeroconf, zc_constructed, zc_stop_listeners, get_calls

(***************************************************************************)
(* State of a SimpliSafeAlarm (simplisafe/alarm_control_panel.py).         *)
(*   alarm_code      entry.options.get(CONF_CODE)                          *)
(*   alarm_state     _attr_state                                           *)
(*   alarm_calls     the calls of async_alarm_disarm, _arm_home and        *)
(*                   _arm_away, each with its code and its place (pc)      *)
(*   alarm_commands  the commands sent to the system, in order             *)
(*   alarm_writes    how many times async_write_ha_state was called        *)
(***************************************************************************)
VARIABLES alarm_code, alarm_state, alarm_calls, alarm_commands, alarm_writes

(***************************************************************************)
(* State of the velbus component (velbus/__init__.py).                     *)
(*   velbus_data        hass.data[DOMAIN]: whether the key is there, and   *)
(*                      the entry ids in it                                *)
(*   velbus_services    the services registered under DOMAIN               *)
(*   velbus_pc          for each config entry, where it is between         *)
(*                      async_setup_entry and async_unload_entry           *)
(*   velbus_registered  how many times async_register was called           *)
(*   velbus_removed     how many times async_remove was called             *)
(***************************************************************************)
VARIABLES velbus_data, velbus_services, velbus_pc, velbus_registered,
          velbus_removed

discoveryVars ==
    <<os_name, zeroconf_types, homekit_models, async_service_browser,
      stop_pc, nEvents, lastEvent, tasks, flows>>

instanceVars ==
    <<hass_data_zeroconf, zc_constructed, zc_stop_listeners, get_calls>>

alarmVars ==
    <<alarm_code, alarm_state, alarm_calls, alarm_commands, alarm_writes>>

velbusVars ==
    <<velbus_data, velbus_services, velbus_pc, velbus_registered,
      velbus_removed>>

vars == <<discoveryVars, instanceVars, alarmVars, velbusVars>>

\* what ZeroconfDiscovery never touches
otherVars == <<instanceVars, alarmVars, velbusVars>>

config == <<os_name, zeroconf_types, homekit_models>>

NoBrowser == [set |-> FALSE, types |-> <<>>, cancelled |-> FALSE]

NoEvent == [service_type |-> "", name |-> <<>>, state_change |-> "None"]

\* hass before any accessor of the zeroconf instance was called
NoInstance ==
    /\ hass_data_zeroconf = 0
    /\ zc_constructed = 0
    /\ zc_stop_listeners = <<>>
    /\ get_calls = <<>>

\* no SimpliSafeAlarm entity
NoAlarm ==
    /\ alarm_code = PyNone
    /\ alarm_state = "None"
    /\ alarm_calls = <<>>
    /\ alarm_commands = <<>>
    /\ alarm_writes = 0

VelbusEntries == 1..MaxEntries

NoData == [present |-> FALSE, entries |-> {}]

\* hass before any velbus config entry was set up
NoVelbus ==
    /\ velbus_data = NoData
    /\ velbus_services = {}
    /\ velbus_pc = [entry \in VelbusEntries |-> "not_loaded"]
    /\ velbus_registered = 0
    /\ velbus_removed = 0

\* ZeroconfDiscovery.__init__
Init ==
    /\ os_name \in Platforms
    /\ zeroconf_types \in ZeroconfTypeTables
    /\ homekit_models = HomekitModels
    /\ async_service_browser = NoBrowser
    /\ stop_pc = "idle"
    /\ nEvents = 0
    /\ lastEvent = NoEvent
    /\ tasks = <<>>
    /\ flows = <<>>
    /\ NoInstance /\ NoAlarm /\ NoVelbus

\* the loop of async_setup appending every hk_type, listed already or not
RECURSIVE AppendMissing_Always(_, _, _)
AppendMissing_Always(types, zc_types, extra) ==
    IF extra = <<>> THEN types
    ELSE AppendMissing_Always(Append(types, extra[1]), zc_types, Tail(extra))

\* the types after the loop of async_setup: hk_type is appended when it is
\* not a key of zeroconf_types
RECURSIVE AppendMissing(_, _, _)
AppendMissing(types, zc_types, extra) ==
    IF extra = <<>> THEN types
    ELSE AppendMissing(IF DictHas(zc_types, extra[1])
                       THEN types ELSE Append(types, extra[1]),
                       zc_types, Tail(extra))

BrowserTypes(zc_types) ==
    AppendMissing([i \in 1..Len(zc_types) |-> zc_types[i].k], zc_types,
                  <<ZEROCONF_TYPE>> \o HOMEKIT_TYPES)

\* ZeroconfDiscovery.async_setup, called once by the component's setup
async_setup ==
    /\ stop_pc = "idle"
    /\ ~async_service_browser.set
    /\ async_service_browser' =
          [set |-> TRUE, types |-> BrowserTypes(zeroconf_types),
           cancelled |-> FALSE]
    /\ UNCHANGED otherVars
    /\ UNCHANGED <<config, stop_pc, nEvents, lastEvent, tasks, flows>>

\* HaAsyncServiceBrowser.async_cancel: the browser's listener is removed when
\* the call is made
BrowserCancel(browser) == [browser EXCEPT !.cancelled = TRUE]

\* HaAsyncServiceBrowser calls its handlers while it has not been cancelled
BrowserDelivers(browser) == browser.set /\ ~browser.cancelled

\* async_stop that never cancels the browser
async_stop_NoCancel ==
    /\ stop_pc = "idle"
    /\ stop_pc' = "done"
    /\ UNCHANGED otherVars
    /\ UNCHANGED <<config, async_service_browser, nEvents, lastEvent, tasks,
                   flows>>

\* async_stop that also cancels the tasks still in async_request
async_stop_CancelsTasks ==
    /\ stop_pc = "idle"
    /\ stop_pc' = IF async_service_browser.set THEN "async_cancel" ELSE "done"
    /\ async_service_browser' =
          IF async_service_browser.set
          THEN BrowserCancel(async_service_browser)
          ELSE async_service_browser
    /\ tasks' = [i \in 1..Len(tasks) |->
                    IF tasks[i].pc = "async_request"
                    THEN [tasks[i] EXCEPT !.pc = "cancelled"]
                    ELSE tasks[i]]
    /\ UNCHANGED otherVars
    /\ UNCHANGED <<config, nEvents, lastEvent, flows>>

\* ZeroconfDiscovery.async_stop, on EVENT_HOMEASSISTANT_STOP (listened to
\* once): without a browser it returns at once, with one it calls async_cancel
\* and awaits it
async_stop ==
    /\ stop_pc = "idle"
    /\ stop_pc' = IF async_service_browser.set THEN "async_cancel" ELSE "done"
    /\ async_service_browser' =
          IF async_service_browser.set
          THEN BrowserCancel(async_service_browser)
          ELSE async_service_browser
    /\ UNCHANGED otherVars
    /\ UNCHANGED <<config, nEvents, lastEvent, tasks, flows>>

\* async_stop returns from the await of async_cancel
async_stop_return ==
    /\ stop_pc = "async_cancel"
    /\ stop_pc' = "done"
    /\ UNCHANGED otherVars
    /\ UNCHANGED <<config, async_service_browser, nEvents, lastEvent, tasks,
                   flows>>

Task(service_type, name) ==
    [service_type |-> service_type, name |-> name, pc |-> "async_request",
     service |-> Service(service_type, name, <<>>, <<>>)]

\* async_service_update creating no task while one for the same type and
\* name is still in async_request
TasksAfterUpdate_Coalesced(ts, service_type, name, state_change) ==
    IF state_change = "Removed" THEN ts
    ELSE IF \E i \in 1..Len(ts) :
                /\ ts[i].service_type = service_type
                /\ ts[i].name = name
                /\ ts[i].pc = "async_request"
    THEN ts
    ELSE Append(ts, Task(service_type, name))

\* async_service_update without the test for a removal
TasksAfterUpdate_NoRemovedTest(ts, service_type, name, state_change) ==
    Append(ts, Task(service_type, name))

\* the tasks after async_service_update: none is created for a removal
TasksAfterUpdate(ts, service_type, name, state_change) ==
    IF state_change = "Removed" THEN ts
    ELSE Append(ts, Task(service_type, name))

\* ZeroconfDiscovery.async_service_update, called by the live browser for a
\* type it browses; limit bounds the callbacks of a run
async_service_update(service_type, name, state_change, limit) ==
    /\ BrowserDelivers(async_service_browser)
    /\ \E i \in 1..Len(async_service_browser.types) :
          async_service_browser.types[i] = service_type
    /\ nEvents < limit
    /\ nEvents' = nEvents + 1
    /\ lastEvent' = [service_type |-> service_type, name |-> name,
                     state_change |-> state_change]
    /\ tasks' = TasksAfterUpdate(tasks, service_type, name, state_change)
    /\ UNCHANGED otherVars
    /\ UNCHANGED <<config, async_service_browser, stop_pc, flows>>

\* flows, each tagged with the task i that created it and with where
\* async_stop was when it was created
TaggedFlows(fs, i) ==
    [n \in 1..Len(fs) |->
        [domain |-> fs[n].domain, source |-> fs[n].source,
         info |-> fs[n].info, task |-> i, stop_pc |-> stop_pc]]

\* ZeroconfDiscovery._process_service_update: task i resumes from
\* async_request with the record the network answered (nothing, when the
\* request timed out) and runs to its end without suspending again
_process_service_update(i, addresses, properties) ==
    LET service == Service(tasks[i].service_type, tasks[i].name,
                           addresses, properties)
        out == ProcessOutcome(os_name, zeroconf_types, homekit_models,
                              tasks[i].service_type, service)
    IN  /\ tasks[i].pc = "async_request"
        /\ tasks' = [tasks EXCEPT ![i].pc = out.end, ![i].service = service]
        /\ flows' = flows \o TaggedFlows(out.flows, i)
        /\ UNCHANGED otherVars
        /\ UNCHANGED <<config, async_service_browser, stop_pc, nEvents,
                       lastEvent>>

ListenerCallback(limit) ==
    \E inst \in Instances, state_change \in StateChanges :
        async_service_update(inst.service_type, inst.name, state_change, limit)

\* a few answers for the runs with several callbacks in flight:
\* no address; 10.0.0.5 with no property, with md=SmartLock sf=1, with
\* manufacturer=Acme Corp
FewAnswers ==
    {[addresses |-> <<>>, properties |-> <<>>],
     [addresses |-> <<ADDR_V4>>, properties |-> <<>>],
     [addresses |-> <<ADDR_V4>>,
      properties |-> <<Entry(HOMEKIT_MODEL, PyBytes(<<83, 109, 97, 114, 116, 76, 111, 99, 107>>)),
                       Entry(HOMEKIT_PAIRED_STATUS_FLAG, PyBytes(<<49>>))>>],
     [addresses |-> <<ADDR_LL4, ADDR_V4>>,
      properties |-> <<Entry(KEY_MANUFACTURER, PyBytes(<<65, 99, 109, 101, 32, 67, 111, 114, 112>>))>>]}

\* the tasks suspended in async_request
Suspended == {i \in 1..Len(tasks) : tasks[i].pc = "async_request"}

Resume ==
    \E i \in Suspended, a \in FewAnswers :
        _process_service_update(i, a.addresses, a.properties)

\* the answers for a run with one callback: every property map with one of
\* three address lists, and every address list with one of two property maps
RecordAnswers ==
    {[addresses |-> a, properties |-> m] :
        a \in {<<>>, <<ADDR_LL4>>, <<ADDR_V4>>}, m \in PropertyMaps}
    \cup
    {[addresses |-> a, properties |-> m] :
        a \in AddressLists,
        m \in {<<>>, <<Entry(HOMEKIT_MODEL, PyBytes(<<83, 109, 97, 114, 116, 76, 111, 99, 107>>)),
                      Entry(HOMEKIT_PAIRED_STATUS_FLAG, PyBytes(<<48>>))>>}}

ResumeAny ==
    \E i \in Suspended, a \in RecordAnswers :
        _process_service_update(i, a.addresses, a.properties)

\* the dispatcher with MaxEvents callbacks, their tasks interleaved
Next ==
    \/ async_setup
    \/ async_stop
    \/ async_stop_return
    \/ ListenerCallback(MaxEvents)
    \/ Resume

Spec == Init /\ [][Next]_vars

\* one callback, answered by any record within MaxAddrs and MaxProps
NextRecord ==
    \/ async_setup
    \/ async_stop
    \/ async_stop_return
    \/ ListenerCallback(1)
    \/ ResumeAny

SpecRecord == Init /\ [][NextRecord]_vars

\* the callbacks of the runs that exercise the matcher filters
MatcherCallback(limit) ==
    \E inst \in MatcherInstances, state_change \in StateChanges :
        async_service_update(inst.service_type, inst.name, state_change, limit)

\* their answers: 10.0.0.5 with any of the matcher's property maps
ResumeMatcher ==
    \E i \in Suspended, m \in MatcherMaps :
        _process_service_update(i, <<ADDR_V4>>, m)

\* ZeroconfDiscovery.__init__ with the table of filter rules
InitMatcher ==
    /\ os_name \in Platforms
    /\ zeroconf_types = MatcherTable
    /\ homekit_models = HomekitModels
    /\ async_service_browser = NoBrowser
    /\ stop_pc = "idle"
    /\ nEvents = 0
    /\ lastEvent = NoEvent
    /\ tasks = <<>>
    /\ flows = <<>>
    /\ NoInstance /\ NoAlarm /\ NoVelbus

NextMatcher ==
    \/ async_setup
    \/ async_stop
    \/ async_stop_return
    \/ MatcherCallback(1)
    \/ ResumeMatcher

SpecMatcher == InitMatcher /\ [][NextMatcher]_vars

\* answers for the runs that exercise the HomeKit classifier: 10.0.0.5 with
\* any of the classifier's property maps
ResumeHomekit ==
    \E i \in Suspended, m \in HomekitMaps :
        _process_service_update(i, <<ADDR_V4>>, m)

NextHomekit ==
    \/ async_setup
    \/ async_stop
    \/ async_stop_return
    \/ ListenerCallback(1)
    \/ ResumeHomekit

SpecHomekit == Init /\ [][NextHomekit]_vars

\* answers for the runs with overlapping homekit_models entries
ResumeOverlap ==
    \E i \in Suspended, m \in OverlapMaps :
        _process_service_update(i, <<ADDR_V4>>, m)

\* ZeroconfDiscovery.__init__ with a homekit_models table of overlapping
\* entries
InitOverlap ==
    /\ os_name \in Platforms
    /\ zeroconf_types \in ZeroconfTypeTables
    /\ homekit_models \in OverlapTables
    /\ async_service_browser = NoBrowser
    /\ stop_pc = "idle"
    /\ nEvents = 0
    /\ lastEvent = NoEvent
    /\ tasks = <<>>
    /\ flows = <<>>
    /\ NoInstance /\ NoAlarm /\ NoVelbus

NextOverlap ==
    \/ async_setup
    \/ async_stop
    \/ async_stop_return
    \/ ListenerCallback(1)
    \/ ResumeOverlap

SpecOverlap == InitOverlap /\ [][NextOverlap]_vars

(***************************************************************************)
(* The shared zeroconf instance: async_get_instance,                       *)
(* async_get_async_instance and _async_get_instance.                       *)
(***************************************************************************)
\* ZeroconfDiscovery not constructed: its variables stay as they are here
NoDiscovery ==
    /\ os_name = "posix"
    /\ zeroconf_types = <<>>
    /\ homekit_models = <<>>
    /\ async_service_browser = NoBrowser
    /\ stop_pc = "idle"
    /\ nEvents = 0
    /\ lastEvent = NoEvent
    /\ tasks = <<>>
    /\ flows = <<>>

Accessors ==
    {"async_get_instance", "async_get_async_instance", "_async_get_instance"}

NoResult == [class |-> "None", instance |-> 0]

\* _async_get_instance constructing whether or not hass.data has DOMAIN
_async_get_instance_NoMemo(data, constructed, listeners) ==
    [data |-> constructed + 1,
     constructed |-> constructed + 1,
     listeners |-> Append(listeners, constructed + 1),
     aio_zc |-> constructed + 1]

\* _async_get_instance: hass.data[DOMAIN], the count of constructions and
\* the stop listeners after the call, and the HaAsyncZeroconf it returns
_async_get_instance(data, constructed, listeners) ==
    IF data # 0
    THEN [data |-> data, constructed |-> constructed,
          listeners |-> listeners, aio_zc |-> data]
    ELSE [data |-> constructed + 1,
          constructed |-> constructed + 1,
          listeners |-> Append(listeners, constructed + 1),
          aio_zc |-> constructed + 1]

\* what the accessor fn returns: async_get_instance the .zeroconf of the
\* HaAsyncZeroconf, the other two the HaAsyncZeroconf itself
AccessorResult(fn, aio_zc) ==
    IF fn = "async_get_instance"
    THEN [class |-> "HaZeroconf", instance |-> aio_zc]
    ELSE [class |-> "HaAsyncZeroconf", instance |-> aio_zc]

\* an integration calls an accessor: the coroutine is created and will run
\* when the event loop gets to it
CallAccessor(fn) ==
    /\ Len(get_calls) < MaxGetCalls
    /\ get_calls' = Append(get_calls,
                           [fn |-> fn, pc |-> "scheduled", result |-> NoResult])
    /\ UNCHANGED <<hass_data_zeroconf, zc_constructed, zc_stop_listeners>>
    /\ UNCHANGED <<discoveryVars, alarmVars, velbusVars>>

\* the event loop runs call c: no await of the three functions suspends, so
\* the call runs from its start to its return in one step
RunAccessor(c) ==
    LET got == _async_get_instance(hass_data_zeroconf, zc_constructed,
                           zc_stop_listeners)
    IN  /\ get_calls[c].pc = "scheduled"
        /\ hass_data_zeroconf' = got.data
        /\ zc_constructed' = got.constructed
        /\ zc_stop_listeners' = got.listeners
        /\ get_calls' = [get_calls EXCEPT
                            ![c].pc = "returned",
                            ![c].result = AccessorResult(get_calls[c].fn,
                                                         got.aio_zc)]
        /\ UNCHANGED <<discoveryVars, alarmVars, velbusVars>>

CallAny == \E fn \in Accessors : CallAccessor(fn)

RunAny ==
    \E c \in {n \in 1..Len(get_calls) : get_calls[n].pc = "scheduled"} :
        RunAccessor(c)

InitInstance == NoDiscovery /\ NoInstance /\ NoAlarm /\ NoVelbus

NextInstance ==
    \/ CallAny
    \/ RunAny

SpecInstance == InitInstance /\ [][NextInstance]_vars

(***************************************************************************)
(* SimpliSafeAlarm.                                                        *)
(***************************************************************************)
STATE_ALARM_ARMED_AWAY == "armed_away"

STATE_ALARM_ARMED_HOME == "armed_home"

STATE_ALARM_ARMING == "arming"

STATE_ALARM_DISARMED == "disarmed"

STATE_ALARM_TRIGGERED == "triggered"

\* STATE_MAP_FROM_REST_API.get(system_state), "None" for a state not in it
StateFromRestApi(system_state) ==
    CASE system_state = "ALARM" -> STATE_ALARM_TRIGGERED
      [] system_state = "AWAY" -> STATE_ALARM_ARMED_AWAY
      [] system_state = "AWAY_COUNT" -> STATE_ALARM_ARMING
      [] system_state = "EXIT_DELAY" -> STATE_ALARM_ARMING
      [] system_state = "HOME" -> STATE_ALARM_ARMED_HOME
      [] system_state = "OFF" -> STATE_ALARM_DISARMED
      [] OTHER -> "None"

\* SimpliSafeAlarm._set_state_from_system_data
_set_state_from_system_data(alarm_going_off, system_state) ==
    IF alarm_going_off THEN STATE_ALARM_TRIGGERED
    ELSE StateFromRestApi(system_state)

\* STATE_MAP_FROM_WEBSOCKET_EVENT.get(event_type)
StateFromWebsocketEvent(event_type) ==
    CASE event_type = "EVENT_ALARM_CANCELED" -> STATE_ALARM_DISARMED
      [] event_type = "EVENT_ALARM_TRIGGERED" -> STATE_ALARM_TRIGGERED
      [] event_type = "EVENT_ARMED_AWAY" -> STATE_ALARM_ARMED_AWAY
      [] event_type = "EVENT_ARMED_AWAY_BY_KEYPAD" -> STATE_ALARM_ARMED_AWAY
      [] event_type = "EVENT_ARMED_AWAY_BY_REMOTE" -> STATE_ALARM_ARMED_AWAY
      [] event_type = "EVENT_ARMED_HOME" -> STATE_ALARM_ARMED_HOME
      [] event_type = "EVENT_AWAY_EXIT_DELAY_BY_KEYPAD" -> STATE_ALARM_ARMING
      [] event_type = "EVENT_AWAY_EXIT_DELAY_BY_REMOTE" -> STATE_ALARM_ARMING
      [] event_type = "EVENT_DISARMED_BY_MASTER_PIN" -> STATE_ALARM_DISARMED
      [] event_type = "EVENT_DISARMED_BY_REMOTE" -> STATE_ALARM_DISARMED
      [] event_type = "EVENT_HOME_EXIT_DELAY" -> STATE_ALARM_ARMING
      [] OTHER -> "None"

\* the truth value Python gives a str | None
Truthy(value) == value.tag = "str" /\ value.val # <<>>

\* _is_code_valid letting a missing code pass
_is_code_valid_MissingPasses(configured, code) ==
    IF ~Truthy(configured) THEN TRUE
    ELSE IF Truthy(code) /\ code # configured THEN FALSE
    ELSE TRUE

\* SimpliSafeAlarm._is_code_valid, with entry.options.get(CONF_CODE) as
\* configured
_is_code_valid(configured, code) ==
    IF ~Truthy(configured) THEN TRUE
    ELSE IF ~Truthy(code) \/ code # configured THEN FALSE
    ELSE TRUE

AlarmMethods ==
    {"async_alarm_disarm", "async_alarm_arm_home", "async_alarm_arm_away"}

\* the method of the system each command method awaits
SystemCommand(method) ==
    CASE method = "async_alarm_disarm" -> "async_set_off"
      [] method = "async_alarm_arm_home" -> "async_set_home"
      [] method = "async_alarm_arm_away" -> "async_set_away"

\* the state each command method sets after its command
StateAfter(method) ==
    CASE method = "async_alarm_disarm" -> STATE_ALARM_DISARMED
      [] method = "async_alarm_arm_home" -> STATE_ALARM_ARMED_HOME
      [] method = "async_alarm_arm_away" -> STATE_ALARM_ARMING

\* the end of a command method with the except branch falling through to
\* the assignment
AfterCommand_ErrorIgnored(method, succeeded, state, writes) ==
    [pc |-> IF succeeded THEN "done" ELSE "failed",
     state |-> StateAfter(method), writes |-> writes + 1]

\* the end of a command method once its command has succeeded or raised
\* SimplipyError: where the call ends, _attr_state, and the count of
\* async_write_ha_state calls
AfterCommand(method, succeeded, state, writes) ==
    IF succeeded
    THEN [pc |-> "done", state |-> StateAfter(method), writes |-> writes + 1]
    ELSE [pc |-> "failed", state |-> state, writes |-> writes]

\* codes: None, "", "1234", "0000"
CODE_1234 == PyStr(<<49, 50, 51, 52>>)

CODE_0000 == PyStr(<<48, 48, 48, 48>>)

ConfiguredCodes == {PyNone, PyStr(<<>>), CODE_1234}

SuppliedCodes == {PyNone, PyStr(<<>>), CODE_1234, CODE_0000}

\* the system data the entity is constructed with and refreshed from
SystemData ==
    {[alarm_going_off |-> FALSE, state |-> "OFF"],
     [alarm_going_off |-> FALSE, state |-> "AWAY"],
     [alarm_going_off |-> TRUE, state |-> "HOME"],
     [alarm_going_off |-> FALSE, state |-> "UNKNOWN"]}

WebsocketEvents == {"EVENT_ARMED_HOME", "EVENT_DISARMED_BY_REMOTE"}

\* async_alarm_disarm, async_alarm_arm_home or async_alarm_arm_away is
\* called with a code: it returns at once when the code is not valid, else it
\* sends its command to the system and awaits it
AlarmCall(method, code) ==
    /\ Len(alarm_calls) < MaxAlarmCalls
    /\ IF _is_code_valid(alarm_code, code)
       THEN /\ alarm_calls' = Append(alarm_calls,
                                     [method |-> method, code |-> code,
                                      pc |-> "command"])
            /\ alarm_commands' = Append(alarm_commands, SystemCommand(method))
       ELSE /\ alarm_calls' = Append(alarm_calls,
                                     [method |-> method, code |-> code,
                                      pc |-> "rejected"])
            /\ alarm_commands' = alarm_commands
    /\ UNCHANGED <<alarm_code, alarm_state, alarm_writes>>
    /\ UNCHANGED <<discoveryVars, instanceVars, velbusVars>>

\* the command of call c succeeds or raises SimplipyError, and the method
\* runs to its end
AlarmCommandEnds(c, succeeded) ==
    LET end == AfterCommand(alarm_calls[c].method, succeeded, alarm_state,
                            alarm_writes)
    IN  /\ alarm_calls[c].pc = "command"
        /\ alarm_calls' = [alarm_calls EXCEPT ![c].pc = end.pc]
        /\ alarm_state' = end.state
        /\ alarm_writes' = end.writes
        /\ UNCHANGED <<alarm_code, alarm_commands>>
        /\ UNCHANGED <<discoveryVars, instanceVars, velbusVars>>

\* SimpliSafeAlarm.async_update_from_rest_api
async_update_from_rest_api(data) ==
    /\ alarm_state' = _set_state_from_system_data(data.alarm_going_off,
                                                  data.state)
    /\ UNCHANGED <<alarm_code, alarm_calls, alarm_commands, alarm_writes>>
    /\ UNCHANGED <<discoveryVars, instanceVars, velbusVars>>

\* SimpliSafeAlarm.async_update_from_websocket_event
async_update_from_websocket_event(event_type) ==
    /\ alarm_state' = StateFromWebsocketEvent(event_type)
    /\ UNCHANGED <<alarm_code, alarm_calls, alarm_commands, alarm_writes>>
    /\ UNCHANGED <<discoveryVars, instanceVars, velbusVars>>

AlarmCallAny ==
    \E method \in AlarmMethods, code \in SuppliedCodes :
        AlarmCall(method, code)

AlarmCommandEndsAny ==
    \E c \in {n \in 1..Len(alarm_calls) : alarm_calls[n].pc = "command"},
       succeeded \in BOOLEAN :
        AlarmCommandEnds(c, succeeded)

RestUpdate == \E data \in SystemData : async_update_from_rest_api(data)

WebsocketUpdate ==
    \E event_type \in WebsocketEvents :
        async_update_from_websocket_event(event_type)

\* SimpliSafeAlarm.__init__
InitAlarm ==
    /\ NoDiscovery /\ NoInstance /\ NoVelbus
    /\ alarm_code \in ConfiguredCodes
    /\ \E data \in SystemData :
          alarm_state = _set_state_from_system_data(data.alarm_going_off,
                                                   data.state)
    /\ alarm_calls = <<>>
    /\ alarm_commands = <<>>
    /\ alarm_writes = 0

NextAlarm ==
    \/ AlarmCallAny
    \/ AlarmCommandEndsAny
    \/ RestUpdate
    \/ WebsocketUpdate

SpecAlarm == InitAlarm /\ [][NextAlarm]_vars

(***************************************************************************)
(* The velbus component: async_setup_entry and async_unload_entry.         *)
(***************************************************************************)
SERVICE_SCAN == "scan"

SERVICE_SYNC == "sync_clock"

SERVICE_SET_MEMO_TEXT == "set_memo_text"

VelbusServices == {SERVICE_SCAN, SERVICE_SYNC, SERVICE_SET_MEMO_TEXT}

\* async_setup_entry registering its services without the has_service test
SetupEntry_AlwaysRegisters(data, services, registered, entry) ==
    [data |-> [present |-> TRUE, entries |-> data.entries \cup {entry}],
     services |-> services \cup VelbusServices,
     registered |-> registered + 3]

\* async_setup_entry: hass.data[DOMAIN], the registered services and the
\* count of async_register calls after it
SetupEntry(data, services, registered, entry) ==
    IF SERVICE_SCAN \in services
    THEN [data |-> [present |-> TRUE, entries |-> data.entries \cup {entry}],
          services |-> services,
          registered |-> registered]
    ELSE [data |-> [present |-> TRUE, entries |-> data.entries \cup {entry}],
          services |-> services \cup VelbusServices,
          registered |-> registered + 3]

\* async_unload_entry from the return of cntrl.stop() on: hass.data[DOMAIN],
\* the registered services and the count of async_remove calls after it
UnloadEntry(data, services, removed, entry) ==
    IF data.entries \ {entry} = {}
    THEN [data |-> NoData,
          services |-> services \ VelbusServices,
          removed |-> removed + 3]
    ELSE [data |-> [present |-> TRUE, entries |-> data.entries \ {entry}],
          services |-> services,
          removed |-> removed]

\* async_setup_entry(hass, entry): it has no await, and returns True
async_setup_entry(entry) ==
    LET after == SetupEntry(velbus_data, velbus_services, velbus_registered,
                            entry)
    IN  /\ velbus_pc[entry] = "not_loaded"
        /\ velbus_data' = after.data
        /\ velbus_services' = after.services
        /\ velbus_registered' = after.registered
        /\ velbus_pc' = [velbus_pc EXCEPT ![entry] = "loaded"]
        /\ UNCHANGED velbus_removed
        /\ UNCHANGED <<discoveryVars, instanceVars, alarmVars>>

\* async_unload_entry(hass, entry) is called for a loaded entry and awaits
\* async_unload_platforms
async_unload_entry(entry) ==
    /\ velbus_pc[entry] = "loaded"
    /\ velbus_pc' = [velbus_pc EXCEPT ![entry] = "async_unload_platforms"]
    /\ UNCHANGED <<velbus_data, velbus_services, velbus_registered,
                   velbus_removed>>
    /\ UNCHANGED <<discoveryVars, instanceVars, alarmVars>>

\* async_unload_platforms returns unload_ok, and async_unload_entry awaits
\* cntrl.stop()
async_unload_entry_platforms(entry, unload_ok) ==
    /\ velbus_pc[entry] = "async_unload_platforms"
    /\ velbus_pc' = [velbus_pc EXCEPT
                        ![entry] = IF unload_ok THEN "stop" ELSE "stop_not_ok"]
    /\ UNCHANGED <<velbus_data, velbus_services, velbus_registered,
                   velbus_removed>>
    /\ UNCHANGED <<discoveryVars, instanceVars, alarmVars>>

\* cntrl.stop() returns, and async_unload_entry runs to its return of
\* unload_ok
async_unload_entry_stopped(entry) ==
    LET after == UnloadEntry(velbus_data, velbus_services, velbus_removed,
                             entry)
    IN  /\ velbus_pc[entry] \in {"stop", "stop_not_ok"}
        /\ velbus_data' = after.data
        /\ velbus_services' = after.services
        /\ velbus_removed' = after.removed
        /\ velbus_pc' = [velbus_pc EXCEPT
                            ![entry] = IF velbus_pc[entry] = "stop"
                                       THEN "unloaded" ELSE "unloaded_not_ok"]
        /\ UNCHANGED velbus_registered
        /\ UNCHANGED <<discoveryVars, instanceVars, alarmVars>>

SetupAny == \E entry \in VelbusEntries : async_setup_entry(entry)

UnloadAny == \E entry \in VelbusEntries : async_unload_entry(entry)

UnloadPlatformsAny ==
    \E entry \in VelbusEntries, unload_ok \in BOOLEAN :
        async_unload_entry_platforms(entry, unload_ok)

UnloadStoppedAny ==
    \E entry \in VelbusEntries : async_unload_entry_stopped(entry)

InitVelbus == NoDiscovery /\ NoInstance /\ NoAlarm /\ NoVelbus

NextVelbus ==
    \/ SetupAny
    \/ UnloadAny
    \/ UnloadPlatformsAny
    \/ UnloadStoppedAny

SpecVelbus == InitVelbus /\ [][NextVelbus]_vars

(***************************************************************************)
(* Observations used by the properties below.                              *)
(***************************************************************************)
\* task i has resumed from async_request and run to its end
Finished(i) == tasks[i].pc # "async_request"

\* task i got a ServiceInfo from info_from_service
Normalized(i) == tasks[i].pc \in {"homekit", "matched"}

\* the ServiceInfo task i got
InfoOf(i) == info_from_service(tasks[i].service).info

\* the domains of the flows task i created with the given source, in order
RECURSIVE DomainsFrom(_, _, _)
DomainsFrom(fs, i, source) ==
    IF fs = <<>> THEN <<>>
    ELSE (IF fs[1].task = i /\ fs[1].source = source
          THEN <<fs[1].domain>> ELSE <<>>)
         \o DomainsFrom(Tail(fs), i, source)

ZeroconfDomains(i) == DomainsFrom(flows, i, SOURCE_ZEROCONF)

HomekitDomains(i) == DomainsFrom(flows, i, SOURCE_HOMEKIT)

\* the domains of the matchers of task i's service type that match its record
RECURSIVE MatchingDomains(_, _)
MatchingDomains(matchers, info) ==
    IF matchers = <<>> THEN <<>>
    ELSE (IF MatcherMatches(os_name, matchers[1], info)
          THEN <<matchers[1]["domain"]>> ELSE <<>>)
         \o MatchingDomains(Tail(matchers), info)

RulesOf(i) == MatchersFor(zeroconf_types, tasks[i].service_type)

\* the typed bag of task i's record holds the pairing flag, and the flag is
\* not an integer or is a non-zero one
FlagSaysUnpaired(i) ==
    /\ DictHas(InfoOf(i).properties, HOMEKIT_PAIRED_STATUS_FLAG)
    /\ LET n == PyInt(DictGet(InfoOf(i).properties,
                              HOMEKIT_PAIRED_STATUS_FLAG).val)
       IN  n.ok => n.n # 0

\* the advertised value of key in task i's record, when the key is advertised
Advertised(i, key) ==
    \E n \in 1..Len(tasks[i].service.properties) :
        tasks[i].service.properties[n].k = key

AdvertisedValue(i, key) == DictGet(tasks[i].service.properties, key)

(***************************************************************************)
(* Properties.                                                             *)
(***************************************************************************)
\* C1: a listener callback whose change kind is Removed creates no task and
\* no discovery flow, whatever callbacks came before it.
C1_RemovedSchedulesNothing ==
    [][(nEvents' = nEvents + 1 /\ lastEvent'.state_change = "Removed")
          => (tasks' = tasks /\ flows' = flows)]_vars

\* C1 witness: a Removed callback was delivered after an Added or Updated
\* callback for the same (service type, name), whose task is still the only one.
C1_Witness ==
    /\ nEvents = 2
    /\ lastEvent.state_change = "Removed"
    /\ Len(tasks) = 1
    /\ tasks[1].service_type = lastEvent.service_type
    /\ tasks[1].name = lastEvent.name

\* the generic matcher ran for task i: one zeroconf-source flow per matching
\* rule of the record's service type, in table order
GenericPerMatchingRule(i) ==
    ZeroconfDomains(i) = MatchingDomains(RulesOf(i), InfoOf(i))

\* task i emitted a HomeKit-source flow and its pairing flag says unpaired
\* or cannot be parsed
UnpairedHomekit(i) ==
    /\ IsHomekitType(tasks[i].service_type)
    /\ HomekitDomains(i) # <<>>
    /\ FlagSaysUnpaired(i)

\* C2 as claimed: for every successfully normalized record, whatever its
\* pairing status, the generic matcher runs and emits one zeroconf-source
\* notification per matching rule.
C2_AlwaysGenericMatching ==
    \A i \in 1..Len(tasks) : Normalized(i) => GenericPerMatchingRule(i)

\* C2 amended: the generic matcher runs and emits one zeroconf-source
\* notification per matching rule for every successfully normalized record
\* except a HomeKit-type record that got a HomeKit notification and whose
\* pairing flag is present and non-zero or unparseable; for that record no
\* zeroconf-source notification is emitted at all.
C2_GenericMatchingUnlessUnpaired ==
    \A i \in 1..Len(tasks) :
        Normalized(i) =>
            IF UnpairedHomekit(i)
            THEN ZeroconfDomains(i) = <<>>
            ELSE GenericPerMatchingRule(i)

\* C2 witness: a HomeKit-type record with pairing flag 0 got its HomeKit
\* notification and, in addition, the zeroconf-source notification of the
\* matching rule.
C2_Witness ==
    \E i \in 1..Len(tasks) :
        /\ Normalized(i)
        /\ HomekitDomains(i) = <<"lockvendor">>
        /\ Advertised(i, HOMEKIT_PAIRED_STATUS_FLAG)
        /\ AdvertisedValue(i, HOMEKIT_PAIRED_STATUS_FLAG) = PyBytes(<<48>>)
        /\ ZeroconfDomains(i) = <<"homekit_controller">>

\* C3: a HomeKit-type record whose model resolves to a domain gets exactly
\* one HomeKit-source notification to that domain whatever its pairing flag
\* is, and the payload carries the flag as advertised.
C3_HomekitWhateverFlag ==
    \A i \in 1..Len(tasks) :
        LET domain == async_get_homekit_discovery_domain(
                          os_name, homekit_models, InfoOf(i).properties)
        IN  (/\ Normalized(i)
             /\ IsHomekitType(tasks[i].service_type)
             /\ domain # NoDomain)
            => /\ HomekitDomains(i) = <<domain>>
               /\ \A n \in 1..Len(flows) :
                    (/\ flows[n].task = i
                     /\ flows[n].source = SOURCE_HOMEKIT
                     /\ Advertised(i, HOMEKIT_PAIRED_STATUS_FLAG)
                     /\ Utf8Decode(AdvertisedValue(
                            i, HOMEKIT_PAIRED_STATUS_FLAG).val).ok)
                    => /\ DictHas(flows[n].info.properties,
                                  HOMEKIT_PAIRED_STATUS_FLAG)
                       /\ DictGet(flows[n].info.properties,
                                  HOMEKIT_PAIRED_STATUS_FLAG)
                          = PyStr(Utf8Decode(AdvertisedValue(
                                i, HOMEKIT_PAIRED_STATUS_FLAG).val).s)

\* C3 witness: a HomeKit notification was emitted for a record whose pairing
\* flag is "x", not a number.
C3_Witness ==
    \E i \in 1..Len(tasks) :
        /\ HomekitDomains(i) = <<"lockvendor">>
        /\ Advertised(i, HOMEKIT_PAIRED_STATUS_FLAG)
        /\ AdvertisedValue(i, HOMEKIT_PAIRED_STATUS_FLAG) = PyBytes(<<120>>)

\* the typed manufacturer property of task i's record is text
ManufacturerIs(i, text) ==
    /\ DictHas(InfoOf(i).properties, KEY_MANUFACTURER)
    /\ DictGet(InfoOf(i).properties, KEY_MANUFACTURER) = PyStr(text)

\* the rules of task i's service type whose only filter is the manufacturer
\* pattern pat
ManufacturerRules(i, pat) ==
    {n \in 1..Len(RulesOf(i)) :
        /\ DOMAIN RulesOf(i)[n] = {"domain", "manufacturer"}
        /\ RulesOf(i)[n]["manufacturer"] = pat}

Notified(i, domain) ==
    \E n \in 1..Len(ZeroconfDomains(i)) : ZeroconfDomains(i)[n] = domain

\* the rule with manufacturer pattern pat decides "Acme Corp" and "Best Co"
\* as the claim says, for every record that reaches the matcher
AcmeDecided(pat) ==
    \A i \in 1..Len(tasks) :
        \A n \in ManufacturerRules(i, pat) :
            tasks[i].pc = "matched" =>
                /\ ManufacturerIs(i, <<65, 99, 109, 101, 32, 67, 111, 114, 112>>)
                      => Notified(i, RulesOf(i)[n]["domain"])
                /\ ManufacturerIs(i, <<66, 101, 115, 116, 32, 67, 111>>)
                      => ~Notified(i, RulesOf(i)[n]["domain"])

\* C4 as claimed: a rule with manufacturer pattern "Acme*" is notified for a
\* record with manufacturer "Acme Corp" and not for one with "Best Co".
C4_AcmeUpperPattern == AcmeDecided(<<65, 99, 109, 101, 42>>)

\* C4 amended: a rule whose only filter is the manufacturer pattern "acme*"
\* (lower case, as the record's manufacturer is lower-cased before the
\* match) is notified for a record with manufacturer "Acme Corp" and not for
\* one with "Best Co"; on posix the pattern "Acme*" is notified for neither.
C4_AcmeLowerPattern ==
    /\ AcmeDecided(<<97, 99, 109, 101, 42>>)
    /\ os_name = "posix" =>
          \A i \in 1..Len(tasks) :
              \A n \in ManufacturerRules(i, <<65, 99, 109, 101, 42>>) :
                  ~Notified(i, RulesOf(i)[n]["domain"])

\* C4 witness: a record with manufacturer "Acme Corp" reached the matcher of
\* a table with both patterns and the "acme*" rule was notified.
C4_Witness ==
    \E i \in 1..Len(tasks) :
        /\ tasks[i].pc = "matched"
        /\ ManufacturerIs(i, <<65, 99, 109, 101, 32, 67, 111, 114, 112>>)
        /\ ManufacturerRules(i, <<65, 99, 109, 101, 42>>) # {}
        /\ ManufacturerRules(i, <<97, 99, 109, 101, 42>>) # {}
        /\ Notified(i, "acme_lower")

\* an address info_from_service may take as host
Usable(a) == IPVersion(a) = 6 \/ ~IsLinkLocal(a)

HasUsable(addresses) == \E n \in 1..Len(addresses) : Usable(addresses[n])

\* the first usable address in advertisement order
FirstUsable(addresses) ==
    addresses[CHOOSE n \in 1..Len(addresses) :
                  /\ Usable(addresses[n])
                  /\ \A m \in 1..(n - 1) : ~Usable(addresses[m])]

AddressesOf(i) == tasks[i].service.addresses

\* C5 as claimed: for every raw record with at least one IPv6 or
\* non-link-local IPv4 address, info_from_service returns a ServiceInfo whose
\* host is the string form of the first such address.
C5_HostIsFirstUsable ==
    \A i \in 1..Len(tasks) :
        (Finished(i) /\ HasUsable(AddressesOf(i)))
            => /\ Normalized(i)
               /\ InfoOf(i).host = IPStr(FirstUsable(AddressesOf(i)))

\* what holds of the address selection alone: whenever info_from_service
\* returns a ServiceInfo its host is the first usable address
HostIsFirstUsableWhenReturned ==
    \A i \in 1..Len(tasks) :
        (Finished(i) /\ HasUsable(AddressesOf(i)) /\ tasks[i].pc # "raised")
            => /\ Normalized(i)
               /\ InfoOf(i).host = IPStr(FirstUsable(AddressesOf(i)))

\* C6: for every raw record whose addresses are all link-local IPv4, or
\* that has none, info_from_service returns no ServiceInfo and the task
\* creates no discovery flow of either source.
C6_NoUsableAddressNoFlow ==
    \A i \in 1..Len(tasks) :
        (Finished(i) /\ ~HasUsable(AddressesOf(i)))
            => /\ info_from_service(tasks[i].service).result # "info"
               /\ ~Normalized(i)
               /\ \A n \in 1..Len(flows) : flows[n].task # i

\* C6 witness: a HomeKit record with md=SmartLock, which a usable address
\* would have turned into notifications, was dropped with 169.254.1.2 as its
\* only address.
C6_Witness ==
    \E i \in 1..Len(tasks) :
        /\ tasks[i].pc = "dropped"
        /\ AddressesOf(i) = <<ADDR_LL4>>
        /\ tasks[i].service_type = HAP_TCP
        /\ Advertised(i, HOMEKIT_MODEL)

\* C7: every ServiceInfo handed to a discovery flow has a non-empty host,
\* the string form of the first usable address of the record it was made
\* from; no flow comes from a record without a usable address.
C7_FlowsHaveHost ==
    \A n \in 1..Len(flows) :
        /\ flows[n].info.host # <<>>
        /\ HasUsable(AddressesOf(flows[n].task))
        /\ flows[n].info.host = IPStr(FirstUsable(AddressesOf(flows[n].task)))

\* C7 witness: a flow whose host is fe80::1, a link-local IPv6 address taken
\* after a link-local IPv4 address was skipped.
C7_Witness ==
    \E n \in 1..Len(flows) :
        /\ AddressesOf(flows[n].task) = <<ADDR_LL4, ADDR_LL6>>
        /\ flows[n].info.host = <<102, 101, 56, 48, 58, 58, 49>>

\* C8 as claimed: every entry of the byte-map with an ASCII key is in the
\* raw bag properties["_raw"] under its decoded key with its original value;
\* the typed bag has the decoded value of an entry whose value decodes as
\* UTF-8 and omits an entry whose value does not.
C8_RawAndTypedBags ==
    \A i \in 1..Len(tasks) :
        Normalized(i) =>
            LET props == InfoOf(i).properties
                raw == DictGet(props, ATTR_RAW)
                entries == tasks[i].service.properties
            IN  \A n \in 1..Len(entries) :
                    LET key == AsciiDecode(entries[n].k)
                        value == entries[n].v
                    IN  key.ok =>
                          /\ raw.tag = "dict"
                          /\ DictHas(raw.items, key.s)
                          /\ DictGet(raw.items, key.s) = value
                          /\ IF value.tag = "bytes" /\ Utf8Decode(value.val).ok
                             THEN /\ DictHas(props, key.s)
                                  /\ DictGet(props, key.s)
                                     = PyStr(Utf8Decode(value.val).s)
                             ELSE ~DictHas(props, key.s)

\* C9 as claimed: info_from_service never raises to its caller, for any
\* property byte-map.
C9_NeverRaises ==
    \A i \in 1..Len(tasks) : tasks[i].pc # "raised"

\* C10: a rule with no filter field, only a domain, gets a zeroconf-source
\* notification for every normalized record of its service type that reaches
\* the matcher, whatever the record's name and properties.
C10_BareRuleAlwaysNotified ==
    \A i \in 1..Len(tasks) :
        tasks[i].pc = "matched" =>
            \A n \in 1..Len(RulesOf(i)) :
                DOMAIN RulesOf(i)[n] = {"domain"}
                    => Notified(i, RulesOf(i)[n]["domain"])

\* C10 witness: the bare rule of _acme._tcp.local. was notified for a record
\* with manufacturer "Best Co", which no filtered rule of the table matches.
C10_Witness ==
    \E i \in 1..Len(tasks) :
        /\ tasks[i].pc = "matched"
        /\ ManufacturerIs(i, <<66, 101, 115, 116, 32, 67, 111>>)
        /\ ZeroconfDomains(i) = <<"any_acme">>

\* the filter fields of a matcher dict and the property each is compared with
FilterFields == {"macaddress", "name", "manufacturer", "model"}

FieldKey(field) ==
    CASE field = "macaddress" -> KEY_MACADDRESS
      [] field = "manufacturer" -> KEY_MANUFACTURER
      [] field = "model" -> KEY_MODEL

\* the normalized field of task i's record: the name lower-cased, the MAC
\* upper-cased, manufacturer and model lower-cased, when the record has it
NormalizedField(i, field) ==
    IF field = "name" THEN SomeStr(Lower(InfoOf(i).name))
    ELSE IF ~DictHas(InfoOf(i).properties, FieldKey(field)) THEN NoStr
    ELSE IF field = "macaddress"
    THEN SomeStr(Upper(DictGet(InfoOf(i).properties, FieldKey(field)).val))
    ELSE SomeStr(Lower(DictGet(InfoOf(i).properties, FieldKey(field)).val))

\* every filter the rule has finds its field in task i's record and
\* glob-matches it
RuleApplies(i, rule) ==
    \A field \in FilterFields \cap DOMAIN rule :
        /\ NormalizedField(i, field).some
        /\ fnmatch(os_name, NormalizedField(i, field).s, rule[field])

\* no other rule of task i's service type names the domain of rule n
OnlyRuleOfDomain(i, n) ==
    \A m \in 1..Len(RulesOf(i)) :
        RulesOf(i)[m]["domain"] = RulesOf(i)[n]["domain"] => m = n

\* C11: a rule with filter fields is notified for a record that reaches the
\* matcher exactly when every filter it has glob-matches the record's
\* normalized field (MAC upper-cased, name, manufacturer and model
\* lower-cased); a rule filtering on a field the record lacks is not
\* notified, even when its other filters match.
C11_FilteredRuleFailsClosed ==
    \A i \in 1..Len(tasks) :
        tasks[i].pc = "matched" =>
            \A n \in 1..Len(RulesOf(i)) :
                LET rule == RulesOf(i)[n]
                IN  /\ OnlyRuleOfDomain(i, n) =>
                          (Notified(i, rule["domain"]) <=> RuleApplies(i, rule))
                    /\ (\E field \in FilterFields \cap DOMAIN rule :
                            ~NormalizedField(i, field).some)
                          => ~(OnlyRuleOfDomain(i, n)
                               /\ Notified(i, rule["domain"]))

\* C11 witness: a record advertising macaddress=aabbccddeeff and no model
\* reached the matcher; the macaddress rule was notified and the rule with
\* the same macaddress filter and a model filter was not.
C11_Witness ==
    \E i \in 1..Len(tasks) :
        /\ tasks[i].pc = "matched"
        /\ Advertised(i, KEY_MACADDRESS)
        /\ ~Advertised(i, KEY_MODEL)
        /\ Notified(i, "by_mac")
        /\ ~Notified(i, "by_mac_model")
        /\ fnmatch(os_name, NormalizedField(i, "macaddress").s,
                   RULE_MAC_MODEL["macaddress"])

\* the domains of the rules, from rule n on, that apply to task i's record
RECURSIVE AppliedDomains(_, _)
AppliedDomains(i, n) ==
    IF n > Len(RulesOf(i)) THEN <<>>
    ELSE (IF RuleApplies(i, RulesOf(i)[n])
          THEN <<RulesOf(i)[n]["domain"]>> ELSE <<>>)
         \o AppliedDomains(i, n + 1)

\* C12: a record that reaches the matcher gets one zeroconf-source
\* notification per rule of its exact service type that matches it, in table
\* order and without merging rules that name the same domain; the rules
\* listed under other service types give it none.
C12_OnePerMatchingRule ==
    \A i \in 1..Len(tasks) :
        tasks[i].pc = "matched" =>
            /\ ZeroconfDomains(i) = AppliedDomains(i, 1)
            /\ \A k \in 1..Len(zeroconf_types) :
                  zeroconf_types[k].k # tasks[i].service_type =>
                      \A n \in 1..Len(zeroconf_types[k].v) :
                          LET domain == zeroconf_types[k].v[n]["domain"]
                          IN  Notified(i, domain) =>
                                  \E j \in 1..Len(zeroconf_types) :
                                      /\ zeroconf_types[j].k
                                         = tasks[i].service_type
                                      /\ \E m \in 1..Len(zeroconf_types[j].v) :
                                            zeroconf_types[j].v[m]["domain"]
                                            = domain

\* C12 witness: a record of _acme._tcp.local. named Cam with
\* macaddress=aabbccddeeff got three notifications, two of them for the two
\* macaddress rules of domain by_mac, and none for the rule without filters
\* listed under _hap._tcp.local.
C12_Witness ==
    \E i \in 1..Len(tasks) :
        /\ tasks[i].pc = "matched"
        /\ tasks[i].service_type = ACME_TYPE
        /\ ZeroconfDomains(i) = <<"by_mac", "by_name", "by_mac">>
        /\ ~Notified(i, "homekit_controller")

\* the properties of task i's record have a key that is "md" in lower case
HasModel(i) ==
    \E n \in 1..Len(InfoOf(i).properties) :
        Lower(InfoOf(i).properties[n].k) = HOMEKIT_MODEL

\* the value of the first such key
ModelOf(i) ==
    LET props == InfoOf(i).properties
        first == CHOOSE n \in 1..Len(props) :
                    /\ Lower(props[n].k) = HOMEKIT_MODEL
                    /\ \A m \in 1..(n - 1) : Lower(props[m].k) # HOMEKIT_MODEL
    IN  props[first].v.val

\* the model equals the entry, starts with the entry and a space or a
\* hyphen, or glob-matches the entry
EntryCovers(model, entry) ==
    \/ model = entry
    \/ /\ Len(model) > Len(entry)
       /\ SubSeq(model, 1, Len(entry)) = entry
       /\ model[Len(entry) + 1] \in {32, 45}
    \/ fnmatch(os_name, model, entry)

\* C13: a HomeKit-type record is classified to a domain exactly when it
\* advertises a model and some entry of the model table equals the model, is
\* followed in the model by a space or a hyphen, or glob-matches it; with
\* the entry "Hub" for hubvendor, model "Hub 2000" goes to hubvendor and
\* model "HubX" to no domain.
C13_ModelResolvesDomain ==
    \A i \in 1..Len(tasks) :
        (Normalized(i) /\ IsHomekitType(tasks[i].service_type)) =>
            /\ HomekitDomains(i) # <<>>
                  <=> /\ HasModel(i)
                      /\ \E n \in 1..Len(homekit_models) :
                            EntryCovers(ModelOf(i), homekit_models[n].k)
            /\ (HasModel(i) /\ ModelOf(i) = <<72, 117, 98, 32, 50, 48, 48, 48>>)
                  => HomekitDomains(i) = <<"hubvendor">>
            /\ (HasModel(i) /\ ModelOf(i) = <<72, 117, 98, 88>>)
                  => HomekitDomains(i) = <<>>

\* C13 witness: a HomeKit-type record with md=Hub 2000 was classified to
\* hubvendor.
C13_Witness ==
    \E i \in 1..Len(tasks) :
        /\ Normalized(i)
        /\ IsHomekitType(tasks[i].service_type)
        /\ HasModel(i)
        /\ ModelOf(i) = <<72, 117, 98, 32, 50, 48, 48, 48>>
        /\ HomekitDomains(i) = <<"hubvendor">>

\* the flows task i created, in order
RECURSIVE FlowsOfTask(_, _)
FlowsOfTask(fs, i) ==
    IF fs = <<>> THEN <<>>
    ELSE (IF fs[1].task = i THEN <<fs[1]>> ELSE <<>>)
         \o FlowsOfTask(Tail(fs), i)

\* task i's record is Lock._hap._tcp.local. of _hap._tcp.local. at 10.0.0.5
\* with properties md=SmartLock and sf=1
SmartLockUnpaired(i) ==
    /\ tasks[i].service_type = HAP_TCP
    /\ tasks[i].name = NAME_LOCK
    /\ tasks[i].service.addresses = <<ADDR_V4>>
    /\ Len(tasks[i].service.properties) = 2
    /\ Advertised(i, HOMEKIT_MODEL)
    /\ AdvertisedValue(i, HOMEKIT_MODEL) = PyBytes(<<83, 109, 97, 114, 116, 76, 111, 99, 107>>)
    /\ Advertised(i, HOMEKIT_PAIRED_STATUS_FLAG)
    /\ AdvertisedValue(i, HOMEKIT_PAIRED_STATUS_FLAG) = PyBytes(<<49>>)

\* C14: the task of an Added or Updated callback for Lock._hap._tcp.local.
\* that resolves to address 10.0.0.5 and properties md=SmartLock, sf=1, with
\* SmartLock in the model table and no rule listed for _hap._tcp.local.,
\* creates exactly one flow: a HomeKit-source one for SmartLock's domain,
\* with host 10.0.0.5, and no zeroconf-source flow.
C14_SmartLockEndToEnd ==
    \A i \in 1..Len(tasks) :
        (/\ Finished(i)
         /\ SmartLockUnpaired(i)
         /\ ~DictHas(zeroconf_types, HAP_TCP))
          => /\ Len(FlowsOfTask(flows, i)) = 1
             /\ FlowsOfTask(flows, i)[1].source = SOURCE_HOMEKIT
             /\ FlowsOfTask(flows, i)[1].domain = "lockvendor"
             /\ FlowsOfTask(flows, i)[1].info.host = <<49, 48, 46, 48, 46, 48, 46, 53>>
             /\ ZeroconfDomains(i) = <<>>

\* C14 witness: that task has finished, with no rule listed for
\* _hap._tcp.local., after an Added or Updated callback.
C14_Witness ==
    \E i \in 1..Len(tasks) :
        /\ Finished(i)
        /\ SmartLockUnpaired(i)
        /\ ~DictHas(zeroconf_types, HAP_TCP)
        /\ lastEvent.state_change \in {"Added", "Updated"}
        /\ HomekitDomains(i) = <<"lockvendor">>

\* the elements of a sequence
Range(seq) == {seq[n] : n \in 1..Len(seq)}

\* C15: once async_setup has run, the browser listens for exactly the service
\* types that are keys of the rule table together with
\* _home-assistant._tcp.local., _hap._tcp.local. and _hap._udp.local., and
\* lists each of them once, whether or not the rule table has it as a key.
C15_BrowserTypesOnce ==
    async_service_browser.set =>
        /\ Range(async_service_browser.types)
           = {zeroconf_types[k].k : k \in 1..Len(zeroconf_types)}
             \cup {"_home-assistant._tcp.local.", "_hap._tcp.local.",
                   "_hap._udp.local."}
        /\ \A m, n \in 1..Len(async_service_browser.types) :
              async_service_browser.types[m] = async_service_browser.types[n]
                  => m = n

\* C15 witness: async_setup has run with a rule table that has
\* _hap._tcp.local. as a key, and the browser lists four types.
C15_Witness ==
    /\ async_service_browser.set
    /\ DictHas(zeroconf_types, HAP_TCP)
    /\ Len(async_service_browser.types) = 4

\* the dispatcher's lifecycle state
Lifecycle ==
    IF stop_pc # "idle" THEN "Stopped"
    ELSE IF async_service_browser.set THEN "Listening"
    ELSE "Idle"

C16_WitnessIdle ==
    /\ stop_pc = "done"
    /\ async_service_browser = NoBrowser

\* task i's record advertises a model that some entry of the model table
\* covers
DomainResolved(i) ==
    /\ HasModel(i)
    /\ \E n \in 1..Len(homekit_models) :
          EntryCovers(ModelOf(i), homekit_models[n].k)

\* the typed bag of task i's record has the pairing flag
HasFlag(i) == DictHas(InfoOf(i).properties, HOMEKIT_PAIRED_STATUS_FLAG)

\* int() of the pairing flag of task i's record
FlagInt(i) ==
    PyInt(DictGet(InfoOf(i).properties, HOMEKIT_PAIRED_STATUS_FLAG).val)

\* C17: for a normalized HomeKit-type record whose model resolves to a
\* domain and whose pairing flag is present and parses to a non-zero integer,
\* the task creates the HomeKit-source flow and then no zeroconf-source flow;
\* when the flag is absent or parses to 0, or no domain is resolved, the task
\* goes on to the generic matcher, which notifies every rule that applies.
C17_UnpairedStopsBeforeMatcher ==
    \A i \in 1..Len(tasks) :
        (Normalized(i) /\ IsHomekitType(tasks[i].service_type)) =>
            /\ (DomainResolved(i) /\ HasFlag(i)
                  /\ FlagInt(i).ok /\ FlagInt(i).n # 0)
                  => /\ tasks[i].pc = "homekit"
                     /\ Len(FlowsOfTask(flows, i)) = 1
                     /\ Len(HomekitDomains(i)) = 1
                     /\ ZeroconfDomains(i) = <<>>
            /\ (\/ ~DomainResolved(i)
                 \/ ~HasFlag(i)
                 \/ (FlagInt(i).ok /\ FlagInt(i).n = 0))
                  => /\ tasks[i].pc = "matched"
                     /\ ZeroconfDomains(i) = AppliedDomains(i, 1)

\* C17 witness: a HomeKit-type record with sf=1 got the HomeKit flow of
\* lockvendor and no zeroconf-source flow, although the rule listed for its
\* service type has no filter.
C17_Witness ==
    \E i \in 1..Len(tasks) :
        /\ Normalized(i)
        /\ HasFlag(i)
        /\ FlagInt(i).ok /\ FlagInt(i).n = 1
        /\ HomekitDomains(i) = <<"lockvendor">>
        /\ RulesOf(i) = <<RULE_HOMEKIT_CONTROLLER>>
        /\ ZeroconfDomains(i) = <<>>

\* C17 witness: HomeKit-type records with the flag absent, and with no domain
\* resolved, were notified to the rule of their service type.
C17_WitnessGoesOn ==
    \E i \in 1..Len(tasks) :
        /\ Normalized(i)
        /\ IsHomekitType(tasks[i].service_type)
        /\ ~HasFlag(i) \/ ~DomainResolved(i)
        /\ ZeroconfDomains(i) = <<"homekit_controller">>

\* the record with the value of its pairing flag replaced
WithFlag(service, value) ==
    [service EXCEPT !.properties =
        [n \in 1..Len(service.properties) |->
            IF service.properties[n].k = HOMEKIT_PAIRED_STATUS_FLAG
            THEN Entry(HOMEKIT_PAIRED_STATUS_FLAG, value)
            ELSE service.properties[n]]]

\* the (domain, source) pairs of a sequence of flows, in order
Notifications(fs) ==
    [n \in 1..Len(fs) |-> <<fs[n].domain, fs[n].source>>]

\* C18: a normalized HomeKit-type record whose model resolves to a domain and
\* whose pairing flag is present but is not an integer does not make the task
\* raise, and gets the notifications the same record gets with pairing flag
\* 1: the HomeKit-source one only.
C18_UnparseableFlagAsUnpaired ==
    \A i \in 1..Len(tasks) :
        (/\ Finished(i)
         /\ IsHomekitType(tasks[i].service_type)
         /\ info_from_service(tasks[i].service).result = "info"
         /\ DomainResolved(i)
         /\ HasFlag(i)
         /\ ~FlagInt(i).ok)
          => /\ tasks[i].pc # "raised"
             /\ Notifications(FlowsOfTask(flows, i))
                = Notifications(
                      ProcessOutcome(os_name, zeroconf_types, homekit_models,
                                     tasks[i].service_type,
                                     WithFlag(tasks[i].service,
                                              PyBytes(<<49>>))).flows)
             /\ Len(FlowsOfTask(flows, i)) = 1
             /\ FlowsOfTask(flows, i)[1].source = SOURCE_HOMEKIT

\* C18 witness: a HomeKit-type record with md=SmartLock and sf=x got the
\* HomeKit flow of lockvendor and nothing else, although the rule listed for
\* its service type has no filter.
C18_Witness ==
    \E i \in 1..Len(tasks) :
        /\ Finished(i)
        /\ HasFlag(i)
        /\ AdvertisedValue(i, HOMEKIT_PAIRED_STATUS_FLAG) = PyBytes(<<120>>)
        /\ RulesOf(i) = <<RULE_HOMEKIT_CONTROLLER>>
        /\ Notifications(FlowsOfTask(flows, i))
           = << <<"lockvendor", SOURCE_HOMEKIT>> >>

\* C19: a listener callback with change kind Added or Updated adds exactly
\* one task, for its service type and name and suspended at the resolution
\* query, whatever tasks exist already, also one for the same type and name;
\* the callback itself resolves, matches and notifies nothing: it leaves the
\* existing tasks and the flows as they are.
C19_OneTaskPerCallback ==
    [][(nEvents' = nEvents + 1 /\ lastEvent'.state_change # "Removed")
          => /\ Len(tasks') = Len(tasks) + 1
             /\ SubSeq(tasks', 1, Len(tasks)) = tasks
             /\ tasks'[Len(tasks')].service_type = lastEvent'.service_type
             /\ tasks'[Len(tasks')].name = lastEvent'.name
             /\ tasks'[Len(tasks')].pc = "async_request"
             /\ flows' = flows]_vars

\* C19 witness: two callbacks for the same service type and name, the second
\* delivered while the task of the first was still suspended, gave two tasks
\* that each ran to its end and created its own flow.
C19_Witness ==
    /\ nEvents = 2
    /\ Len(tasks) = 2
    /\ tasks[1].service_type = tasks[2].service_type
    /\ tasks[1].name = tasks[2].name
    /\ Finished(1) /\ Finished(2)
    /\ FlowsOfTask(flows, 1) # <<>>
    /\ FlowsOfTask(flows, 2) # <<>>
    /\ flows[1].task = 2

\* C20: async_stop does not cancel the tasks in flight: its steps, the call
\* of async_cancel and the return from awaiting it, leave every task as it
\* is, so that a task still suspended in the resolution query when async_stop
\* has returned resumes later and may create a discovery flow on a Stopped
\* dispatcher.
C20_StopLeavesTasksInFlight ==
    [][stop_pc' # stop_pc
          => (tasks' = tasks /\ flows' = flows
              /\ \A i \in 1..Len(tasks) :
                    tasks[i].pc = "async_request"
                        => tasks'[i].pc = "async_request")]_vars

\* C20 witness: a flow was created after async_stop had returned, by a task
\* scheduled while the dispatcher was Listening.
C20_Witness ==
    /\ stop_pc = "done"
    /\ async_service_browser.cancelled
    /\ \E n \in 1..Len(flows) : flows[n].stop_pc = "done"

\* the entries of the model table that cover task i's model
Covering(i) ==
    {n \in 1..Len(homekit_models) :
        EntryCovers(ModelOf(i), homekit_models[n].k)}

\* C21: when the model a HomeKit-type record advertises is covered by several
\* entries of the model table, the record is classified to the domain of the
\* one registered first, whether that entry equals the model, is a prefix
\* followed by a separator, or glob-matches it.
C21_FirstMatchingEntryWins ==
    \A i \in 1..Len(tasks) :
        (/\ Normalized(i)
         /\ IsHomekitType(tasks[i].service_type)
         /\ HasModel(i)
         /\ Covering(i) # {})
          => \E first \in Covering(i) :
                /\ \A n \in Covering(i) : first <= n
                /\ HomekitDomains(i) = <<homekit_models[first].v>>

\* C21 witness: model "Hub 2000" is covered by all three entries of a table
\* that lists the glob "Hub*" first and the exact entry "Hub 2000" last, and
\* the record was classified to the domain of the glob.
C21_Witness ==
    \E i \in 1..Len(tasks) :
        /\ Normalized(i)
        /\ HasModel(i)
        /\ ModelOf(i) = <<72, 117, 98, 32, 50, 48, 48, 48>>
        /\ Covering(i) = {1, 2, 3}
        /\ homekit_models[1] = ENTRY_GLOB
        /\ homekit_models[3] = ENTRY_EXACT
        /\ HomekitDomains(i) = <<"globvendor">>

\* the advertised properties of task i's record that are in the typed bag
\* under a key that is "md" in lower case, by their place in the record
ModelPlaces(i) ==
    {n \in 1..Len(tasks[i].service.properties) :
        LET entry == tasks[i].service.properties[n]
        IN  /\ AsciiDecode(entry.k).ok
            /\ Lower(AsciiDecode(entry.k).s) = <<109, 100>>
            /\ entry.v.tag = "bytes"
            /\ Utf8Decode(entry.v.val).ok}

\* the domain of the first entry of the model table that covers the model
DomainsCovering(model) ==
    LET covering == {n \in 1..Len(homekit_models) :
                        EntryCovers(model, homekit_models[n].k)}
    IN  IF covering = {} THEN <<>>
        ELSE <<homekit_models[CHOOSE first \in covering :
                                 \A n \in covering : first <= n].v>>

\* C22: the model of a HomeKit-type record is the value of the first
\* property, in the order of the record, whose key is "md" in lower case,
\* whatever later properties have such a key; the record is classified by
\* that value alone, and a record with no such key gets no HomeKit-source
\* notification.
C22_FirstModelKeyAnyCase ==
    \A i \in 1..Len(tasks) :
        (Normalized(i) /\ IsHomekitType(tasks[i].service_type)) =>
            IF ModelPlaces(i) = {}
            THEN HomekitDomains(i) = <<>>
            ELSE \E first \in ModelPlaces(i) :
                    /\ \A n \in ModelPlaces(i) : first <= n
                    /\ HomekitDomains(i)
                       = DomainsCovering(
                             Utf8Decode(tasks[i].service
                                            .properties[first].v.val).s)

\* C22 witness: a record advertising MD=Hub and then md=SmartLock was
\* classified to hubvendor, the domain of "Hub".
C22_Witness ==
    \E i \in 1..Len(tasks) :
        /\ Normalized(i)
        /\ IsHomekitType(tasks[i].service_type)
        /\ tasks[i].service.properties
           = <<Entry(<<77, 68>>, PyBytes(<<72, 117, 98>>)),
               Entry(HOMEKIT_MODEL, PyBytes(<<83, 109, 97, 114, 116, 76, 111, 99, 107>>))>>
        /\ HomekitDomains(i) = <<"hubvendor">>

\* C22 witness: a record advertising md=HubX and then MD=Hub got no
\* HomeKit-source notification, although "Hub" is in the model table.
C22_WitnessNoDomain ==
    \E i \in 1..Len(tasks) :
        /\ Normalized(i)
        /\ IsHomekitType(tasks[i].service_type)
        /\ tasks[i].service.properties
           = <<Entry(HOMEKIT_MODEL, PyBytes(<<72, 117, 98, 88>>)),
               Entry(<<77, 68>>, PyBytes(<<72, 117, 98>>))>>
        /\ HomekitDomains(i) = <<>>

\* C24 as claimed: in every ServiceInfo info_from_service produces, the entry
\* of the typed bag under "_raw" is the raw mapping, and it holds every
\* advertised property with an ASCII key under that key with its original
\* value, also when a property named "_raw" with a UTF-8 value is advertised.
C24_RawIsTheRawMapping ==
    \A i \in 1..Len(tasks) :
        Normalized(i) =>
            LET raw == DictGet(InfoOf(i).properties, ATTR_RAW)
            IN  /\ raw.tag = "dict"
                /\ \A n \in 1..Len(tasks[i].service.properties) :
                      LET entry == tasks[i].service.properties[n]
                      IN  AsciiDecode(entry.k).ok =>
                              /\ DictHas(raw.items, AsciiDecode(entry.k).s)
                              /\ DictGet(raw.items, AsciiDecode(entry.k).s)
                                 = entry.v

\* the calls of the accessors that have returned
Returned == {c \in 1..Len(get_calls) : get_calls[c].pc = "returned"}

\* C23: whatever accessors were called, in whatever order the event loop ran
\* them, at most one instance was constructed; every call that has returned
\* returned that instance (async_get_instance its HaZeroconf, the other two
\* the HaAsyncZeroconf around it), which is the one in hass.data; and once a
\* call has returned exactly one stop listener is registered, for that
\* instance.
C23_OneSharedInstance ==
    /\ zc_constructed <= 1
    /\ \A c \in Returned :
          /\ get_calls[c].result.instance = hass_data_zeroconf
          /\ get_calls[c].result.instance = 1
          /\ get_calls[c].result.class
             = IF get_calls[c].fn = "async_get_instance"
               THEN "HaZeroconf" ELSE "HaAsyncZeroconf"
    /\ Returned # {} =>
          (zc_constructed = 1 /\ zc_stop_listeners = <<1>>)
    /\ Returned = {} =>
          (zc_constructed = 0 /\ zc_stop_listeners = <<>>
           /\ hass_data_zeroconf = 0)

\* C23 witness: each of the three accessors was called once, and the three
\* calls have returned.
C23_Witness ==
    /\ Len(get_calls) = 3
    /\ Returned = {1, 2, 3}
    /\ {get_calls[c].fn : c \in 1..3} = Accessors
    /\ zc_constructed = 1

\* a step in which one of the command methods is called; the call is the
\* last of alarm_calls afterwards
AlarmCalled == Len(alarm_calls') = Len(alarm_calls) + 1

\* C25: with an alarm code configured, a call of async_alarm_disarm,
\* async_alarm_arm_home or async_alarm_arm_away with no code, an empty code
\* or another code sends no command, writes no state and leaves the entity
\* state as it is; with no code configured, a call with any code sends its
\* command.
C25_WrongCodeSendsNothing ==
    [][AlarmCalled =>
          LET call == alarm_calls'[Len(alarm_calls')]
          IN  /\ (/\ alarm_code \notin {PyNone, PyStr(<<>>)}
                  /\ call.code # alarm_code)
                    => /\ call.pc = "rejected"
                       /\ alarm_commands' = alarm_commands
                       /\ alarm_state' = alarm_state
                       /\ alarm_writes' = alarm_writes
              /\ alarm_code \in {PyNone, PyStr(<<>>)}
                    => /\ call.pc = "command"
                       /\ alarm_commands'
                          = Append(alarm_commands, SystemCommand(call.method))]_vars

\* C25 witness: with code 1234 configured, a call without a code and a call
\* with code 0000 were rejected and no command was sent.
C25_Witness ==
    /\ alarm_code = CODE_1234
    /\ Len(alarm_calls) = 2
    /\ alarm_calls[1].code = PyNone
    /\ alarm_calls[2].code = CODE_0000
    /\ alarm_calls[1].pc = "rejected"
    /\ alarm_calls[2].pc = "rejected"
    /\ alarm_commands = <<>>

\* C25 witness: with no code configured, a call with code 0000 sent its
\* command.
C25_WitnessNoCode ==
    /\ alarm_code = PyNone
    /\ Len(alarm_calls) = 1
    /\ alarm_calls[1].code = CODE_0000
    /\ alarm_commands = <<SystemCommand(alarm_calls[1].method)>>

\* a step in which the command of call c ends
CommandEnded(c) ==
    /\ c \in 1..Len(alarm_calls)
    /\ alarm_calls[c].pc = "command"
    /\ alarm_calls'[c].pc # "command"

\* C26: when the command of async_alarm_disarm, async_alarm_arm_home or
\* async_alarm_arm_away fails with SimplipyError the method leaves the entity
\* state as it is and writes no state; when it succeeds the state becomes
\* disarmed, armed_home or (for arm-away) arming, and is written once; no
\* other step of a command method changes the state.
C26_StateOnlyOnSuccess ==
    [][/\ \A c \in 1..Len(alarm_calls) :
             CommandEnded(c) =>
                 IF alarm_calls'[c].pc = "failed"
                 THEN alarm_state' = alarm_state
                      /\ alarm_writes' = alarm_writes
                 ELSE /\ alarm_calls'[c].pc = "done"
                      /\ alarm_writes' = alarm_writes + 1
                      /\ alarm_state'
                         = (CASE alarm_calls[c].method = "async_alarm_disarm"
                                   -> "disarmed"
                              [] alarm_calls[c].method = "async_alarm_arm_home"
                                   -> "armed_home"
                              [] alarm_calls[c].method = "async_alarm_arm_away"
                                   -> "arming")
       /\ (alarm_calls' # alarm_calls
           /\ (alarm_state' # alarm_state \/ alarm_writes' # alarm_writes))
             => \E c \in 1..Len(alarm_calls) :
                   CommandEnded(c) /\ alarm_calls'[c].pc = "done"]_vars

\* C26 witness: an arm-away command failed on an entity that was disarmed by
\* an earlier, successful command; the state is still disarmed and was
\* written once.
C26_Witness ==
    /\ Len(alarm_calls) = 2
    /\ alarm_calls[1].method = "async_alarm_disarm"
    /\ alarm_calls[1].pc = "done"
    /\ alarm_calls[2].method = "async_alarm_arm_away"
    /\ alarm_calls[2].pc = "failed"
    /\ alarm_state = STATE_ALARM_DISARMED
    /\ alarm_writes = 1

\* the config entries whose async_setup_entry has returned and whose
\* async_unload_entry has not
LoadedEntries ==
    {entry \in VelbusEntries :
        velbus_pc[entry] \in {"loaded", "async_unload_platforms", "stop",
                              "stop_not_ok"}}

ThreeServices == {"scan", "sync_clock", "set_memo_text"}

\* C27: the scan, sync_clock and set_memo_text services are registered
\* exactly while at least one config entry is loaded; a setup registers them
\* only when no entry was loaded before it, and the return of an unload
\* removes them only when no other entry is loaded after it.
C27_ServicesWhileLoaded ==
    [][/\ velbus_services = (IF LoadedEntries = {} THEN {} ELSE ThreeServices)
       /\ velbus_services'
          = (IF LoadedEntries' = {} THEN {} ELSE ThreeServices)
       /\ velbus_registered'
          = (IF LoadedEntries = {} /\ LoadedEntries' # {}
             THEN velbus_registered + 3 ELSE velbus_registered)
       /\ velbus_removed'
          = (IF LoadedEntries # {} /\ LoadedEntries' = {}
             THEN velbus_removed + 3 ELSE velbus_removed)]_vars

\* C27 witness: entry 1 was loaded and unloaded, then entries 2 and 3 were
\* loaded and entry 2 unloaded: the services were registered twice and
\* removed once, and are registered for entry 3.
C27_Witness ==
    /\ velbus_pc[1] = "unloaded"
    /\ velbus_pc[2] = "unloaded"
    /\ velbus_pc[3] = "loaded"
    /\ velbus_registered = 6
    /\ velbus_removed = 3
    /\ velbus_services = ThreeServices

====
